---- MODULE Spec2Model ----
(***************************************************************************)
(* A model of the server side of vt6.rs: the message codec                 *)
(* (common/core/msg), the connection state machine (server/connection.rs), *)
(* the handshake and core message handlers (server/core) and the Tokio     *)
(* dispatch (server/tokio) with its accept loop, receiver and transmitter  *)
(* jobs, the pool / tx / broadcast-queue locks and the broadcast queue.    *)
(*                                                                         *)
(* Bytes are one-character strings; a bytestring is a sequence of them.    *)
(***************************************************************************)
EXTENDS Integers, Sequences, FiniteSets, TLC

(***************************************************************************)
(* Bounds of the model.                                                    *)
(***************************************************************************)
\* number of client sockets the accept loop accepts
MaxConns == 2
\* number of successful non-empty reads per receiver job
MaxReads == 1
\* the same two bounds for the single-connection specification
ConnMaxConns == 1
ConnMaxReads == 2
\* number of bytes of a client-hello that arrive with a first, partial read
HelloSplit == 10
\* number of enqueue_broadcast() calls made from outside of handlers
MaxExtBroadcasts == 1
\* the same bound for the single-connection specification
ConnMaxExtBroadcasts == 2
\* capacity of one SendBuffer in bytes (4072 in the source, scaled down so
\* that the encoded replies of the model overflow a buffer)
SendBufferCap == 48
TreeMaxReads == 2
MaxShutdowns == 2
\* number of enqueue_broadcast calls of the specification of the enqueue
\* operations, reads per receiver job there, and the number of bytes by which
\* its long stdin input exceeds one SendBuffer
MaxPlan == 2
EnqMaxReads == 1
PasteExcess == 12
\* want messages handled on the connection of SpecWant
MaxWants == 3

(***************************************************************************)
(* Option and Result values.                                               *)
(***************************************************************************)
None == [some |-> FALSE]
Some(x) == [some |-> TRUE, val |-> x]

Ok(x) == [ok |-> TRUE, val |-> x]
Err(kind, offset) == [ok |-> FALSE, kind |-> kind, offset |-> offset]

(***************************************************************************)
(* Bytes.                                                                  *)
(***************************************************************************)
Digits == {"0", "1", "2", "3", "4", "5", "6", "7", "8", "9"}

DigitValue(c) ==
    CASE c = "0" -> 0 [] c = "1" -> 1 [] c = "2" -> 2 [] c = "3" -> 3
      [] c = "4" -> 4 [] c = "5" -> 5 [] c = "6" -> 6 [] c = "7" -> 7
      [] c = "8" -> 8 [] c = "9" -> 9

DigitChar(d) ==
    CASE d = 0 -> "0" [] d = 1 -> "1" [] d = 2 -> "2" [] d = 3 -> "3"
      [] d = 4 -> "4" [] d = 5 -> "5" [] d = 6 -> "6" [] d = 7 -> "7"
      [] d = 8 -> "8" [] d = 9 -> "9"

UpperCase == {"A", "B", "C", "D", "E", "F", "G", "H", "I", "J", "K", "L", "M",
              "N", "O", "P", "Q", "R", "S", "T", "U", "V", "W", "X", "Y", "Z"}
LowerCase == {"a", "b", "c", "d", "e", "f", "g", "h", "i", "j", "k", "l", "m",
              "n", "o", "p", "q", "r", "s", "t", "u", "v", "w", "x", "y", "z"}

\* bytes >= 0x80 that occur in the model's inputs: 0xC0 0xB1 is the overlong
\* encoding of "1"; no sequence over these two bytes is valid UTF-8
HighBytes == {"\\xC0", "\\xB1"}

\* core::str::from_utf8(s).ok(): Some(s) iff s is valid UTF-8
from_utf8(s) ==
    IF \E i \in 1..Len(s) : s[i] \in HighBytes THEN None ELSE Some(s)

isnum(c) == c \in Digits

\* the bytes of s from offset a (inclusive) to offset b (exclusive), 0-based
Slice(s, a, b) == SubSeq(s, a + 1, b)

\* position of the first byte equal to c in s, 0-based
RECURSIVE FindFrom(_, _, _)
FindFrom(s, c, i) ==
    IF i >= Len(s) THEN None
    ELSE IF s[i + 1] = c THEN Some(i)
    ELSE FindFrom(s, c, i + 1)

find(s, c) == FindFrom(s, c, 0)

(***************************************************************************)
(* Decimal numbers (usize and u16) as Rust's str::parse() reads them.      *)
(* Values beyond the model's integer range are kept as Huge, which is      *)
(* larger than every buffer length and argument count of the model.        *)
(***************************************************************************)
Huge == 10 ^ 9

USIZE_MAX_STR ==
    <<"1","8","4","4","6","7","4","4","0","7","3","7","0","9","5","5","1","6","1","5">>
U16_MAX_STR == <<"6","5","5","3","5">>

\* a > b for two digit strings of the same length
RECURSIVE DigitsGreater(_, _)
DigitsGreater(a, b) ==
    IF a = <<>> THEN FALSE
    ELSE IF DigitValue(Head(a)) > DigitValue(Head(b)) THEN TRUE
    ELSE IF DigitValue(Head(a)) < DigitValue(Head(b)) THEN FALSE
    ELSE DigitsGreater(Tail(a), Tail(b))

RECURSIVE StripZeroes(_)
StripZeroes(ds) ==
    IF Len(ds) > 1 /\ Head(ds) = "0" THEN StripZeroes(Tail(ds)) ELSE ds

\* ds, a non-empty digit string, exceeds the digit string max
ExceedsMax(ds, max) ==
    LET d == StripZeroes(ds)
    IN  \/ Len(d) > Len(max)
        \/ Len(d) = Len(max) /\ DigitsGreater(d, max)

RECURSIVE DigitsValueAcc(_, _)
DigitsValueAcc(ds, acc) ==
    IF ds = <<>> THEN acc
    ELSE IF acc >= Huge \div 10 THEN Huge
    ELSE DigitsValueAcc(Tail(ds), acc * 10 + DigitValue(Head(ds)))

DigitsValue(ds) == DigitsValueAcc(ds, 0)

\* <unsigned>::from_str: an optional "+", then at least one digit, nothing
\* else, and no overflow
ParseUnsigned(s, max) ==
    LET ds == IF s # <<>> /\ Head(s) = "+" THEN Tail(s) ELSE s
    IN  IF ds = <<>> THEN None
        ELSE IF \E i \in 1..Len(ds) : ~isnum(ds[i]) THEN None
        ELSE IF ExceedsMax(ds, max) THEN None
        ELSE Some(DigitsValue(ds))

\* DecodeArgument for u16
decode_u16(arg) ==
    IF Len(arg) = 0 THEN None
    ELSE IF arg # <<"0">> /\ arg[1] = "0" THEN None
    ELSE IF from_utf8(arg) = None THEN None
    ELSE ParseUnsigned(arg, U16_MAX_STR)

\* EncodeArgument for usize: the decimal digits of val
RECURSIVE encode_usize(_)
encode_usize(val) ==
    IF val > 9 THEN Append(encode_usize(val \div 10), DigitChar(val % 10))
    ELSE <<DigitChar(val % 10)>>

\* the integer types of the model with their least and greatest values
IntTypes == {"u8", "i8", "u16", "i16"}

is_signed_ty(ty) == ty \in {"i8", "i16"}

min_value(ty) ==
    CASE ty = "i8" -> -128 [] ty = "i16" -> -32768 [] OTHER -> 0

max_value(ty) ==
    CASE ty = "u8" -> 255 [] ty = "i8" -> 127 [] ty = "u16" -> 65535
      [] ty = "i16" -> 32767

\* <integer>::from_str: a "+", or for a signed type a "-", may come first;
\* then at least one digit, nothing else, and no overflow
from_str(ty, src) ==
    LET negative == is_signed_ty(ty) /\ src # <<>> /\ Head(src) = "-"
        digits == IF src # <<>> /\ (Head(src) = "+" \/ negative)
                  THEN Tail(src) ELSE src
        value(v) ==
            IF negative
            THEN IF v > -min_value(ty) THEN None ELSE Some(-v)
            ELSE IF v > max_value(ty) THEN None ELSE Some(v)
    IN  IF digits = <<>> THEN None
        ELSE IF \E i \in 1..Len(digits) : ~isnum(digits[i]) THEN None
        ELSE value(DigitsValue(digits))

\* DecodeArgument for the integer types
decode_integer(ty, arg) ==
    IF Len(arg) = 0 THEN None
    ELSE IF arg # <<"0">> /\ arg[1] = "0" THEN None
    ELSE IF from_utf8(arg) = None THEN None
    ELSE from_str(ty, arg)

\* EncodeArgument for the integer types: the decimal digits of the absolute
\* value, after a "-" for a negative value
encode_integer(val) ==
    IF val >= 0 THEN encode_usize(val) ELSE <<"-">> \o encode_usize(-val)

\* `*self as u32` for a value that is not negative, and
\* `(!(*self as u32)).wrapping_add(1)` for a negative one: !(x as u32) is
\* -x - 1, which is below 2^31 for the types of the model, so that the
\* addition does not wrap
integer_magnitude(val) == IF val >= 0 THEN val ELSE (-val - 1) + 1

RECURSIVE integer_digits(_)
integer_digits(val) ==
    IF val > 9 THEN 1 + integer_digits(val \div 10) ELSE 1

\* a get_size that leaves no room for the minus sign
integer_get_size_unsigned(val) == integer_digits(integer_magnitude(val))

\* EncodeArgument::get_size for the integer types
integer_get_size(val) ==
    integer_digits(integer_magnitude(val)) + (IF val >= 0 THEN 0 ELSE 1)

\* a byte of a buffer that nothing was written to
Unwritten == "\\x00"

\* the loop of EncodeArgument::encode for the integer types, writing the
\* digits of val from buf[idx] downwards: [buf, idx, panicked], where the
\* loop panics when idx would go below 0
RECURSIVE integer_encode_loop(_, _, _)
integer_encode_loop(buf, idx, val) ==
    IF val > 9
    THEN IF idx = 0
         THEN [buf |-> buf, idx |-> idx, panicked |-> TRUE]
         ELSE integer_encode_loop(
                  [buf EXCEPT ![idx + 1] = DigitChar(val % 10)], idx - 1,
                  val \div 10)
    ELSE [buf |-> [buf EXCEPT ![idx + 1] = DigitChar(val % 10)], idx |-> idx,
          panicked |-> FALSE]

\* EncodeArgument::encode for the integer types on a buffer of zero bytes:
\* [buf, panicked]; it panics on an empty buffer, in the loop, and where an
\* assertion on idx fails
integer_encode(val, buf) ==
    LET finish(r) ==
            IF r.panicked THEN [buf |-> r.buf, panicked |-> TRUE]
            ELSE IF val >= 0
            THEN [buf |-> r.buf, panicked |-> r.idx # 0]
            ELSE IF r.idx # 1 THEN [buf |-> r.buf, panicked |-> TRUE]
            ELSE [buf |-> [r.buf EXCEPT ![1] = "-"], panicked |-> FALSE]
    IN  IF Len(buf) = 0 THEN [buf |-> buf, panicked |-> TRUE]
        ELSE finish(integer_encode_loop(buf, Len(buf) - 1,
                                        integer_magnitude(val)))

\* EncodeArgument::encode_to_vector
encode_to_vector(val) ==
    integer_encode(val, [i \in 1..integer_get_size(val) |-> Unwritten])

(***************************************************************************)
(* Client ID suffixes (client/core/client_id.rs).  A u32 is kept as its    *)
(* two halves of 16 bits, [hi, lo], so that every value of the type and    *)
(* the overflow of num + 1 are in the model.  What num + 1 does at         *)
(* u32::MAX depends on the build: with overflow checks it panics, without  *)
(* them it wraps to 0.                                                     *)
(***************************************************************************)
Half == 2 ^ 16

U32(n) == [hi |-> n \div Half, lo |-> n % Half]

U32_MAX == [hi |-> Half - 1, lo |-> Half - 1]

\* num + 1: Ok(the sum), or, at u32::MAX, a panic or Ok(0)
u32_add_one(num, overflow_checks) ==
    IF num.lo < Half - 1 THEN Ok([hi |-> num.hi, lo |-> num.lo + 1])
    ELSE IF num.hi < Half - 1 THEN Ok([hi |-> num.hi + 1, lo |-> 0])
    ELSE IF overflow_checks THEN Err("panic", 0)
    ELSE Ok([hi |-> 0, lo |-> 0])

\* num / 61, which is below 2^27, as a number
u32_div_61(num) ==
    (num.hi \div 61) * Half + (((num.hi % 61) * Half + num.lo) \div 61)

\* a get_size_for_number that does not shift the number by one
get_size_for_number_unshifted(num, overflow_checks) == Ok(1 + u32_div_61(num))

\* get_size_for_number: Ok(size) or a panic
get_size_for_number(num, overflow_checks) ==
    LET sized(sum) == IF ~sum.ok THEN sum ELSE Ok(1 + u32_div_61(sum.val))
    IN  sized(u32_add_one(num, overflow_checks))

LOOKUP_TABLE ==
    << "0", "1", "2", "3", "4", "5", "6", "7", "8", "9", "A", "B",
       "C", "D", "E", "F", "G", "H", "I", "J", "K", "L", "M", "N",
       "O", "P", "Q", "R", "S", "T", "U", "V", "W", "X", "Y", "Z",
       "a", "b", "c", "d", "e", "f", "g", "h", "i", "j", "k", "l",
       "m", "n", "o", "p", "q", "r", "s", "t", "u", "v", "w", "x",
       "y", "z" >>

\* the loop of encode_number over the bytes of a buffer of size bytes, for a
\* num that is held as a number
RECURSIVE encode_number_loop(_, _)
encode_number_loop(num, size) ==
    IF size = 0 THEN <<>>
    ELSE IF num >= 61
    THEN <<LOOKUP_TABLE[62]>> \o encode_number_loop(num - 61, size - 1)
    ELSE <<LOOKUP_TABLE[num + 1]>> \o encode_number_loop(num, size - 1)

\* encode_number on a buffer of size bytes: Ok(the bytes) or a panic
encode_number(num, size, overflow_checks) ==
    LET encoded(sum) ==
            IF ~sum.ok THEN sum
            ELSE Ok(encode_number_loop(sum.val.hi * Half + sum.val.lo, size))
    IN  encoded(u32_add_one(num, overflow_checks))

\* the suffixes
Local(i) == [tag |-> "Local", i |-> i, j |-> U32(0)]
Job(i) == [tag |-> "Job", i |-> i, j |-> U32(0)]
Child(i, j) == [tag |-> "Child", i |-> i, j |-> j]

\* ClientIDSuffix::get_size: Ok(size) or a panic
ClientIDSuffix_get_size(suffix, overflow_checks) ==
    LET both(a, b) ==
            IF ~a.ok THEN a ELSE IF ~b.ok THEN b ELSE Ok(a.val + b.val)
        plus(n, a) == IF ~a.ok THEN a ELSE Ok(n + a.val)
    IN  CASE suffix.tag = "Local" ->
               plus(1, get_size_for_number(suffix.i, overflow_checks))
          [] suffix.tag = "Job" ->
               get_size_for_number(suffix.i, overflow_checks)
          [] suffix.tag = "Child" ->
               both(get_size_for_number(suffix.i, overflow_checks),
                    get_size_for_number(suffix.j, overflow_checks))

\* ClientIDSuffix::encode on a buffer of size bytes, size > 0: Ok(the
\* bytes) or a panic
ClientIDSuffix_encode(suffix, size, overflow_checks) ==
    LET both(a, b) ==
            IF ~a.ok THEN a ELSE IF ~b.ok THEN b ELSE Ok(a.val \o b.val)
        after(head, a) == IF ~a.ok THEN a ELSE Ok(head \o a.val)
        child(first) ==
            IF ~first.ok THEN first
            ELSE both(encode_number(suffix.i, first.val, overflow_checks),
                      encode_number(suffix.j, size - first.val,
                                    overflow_checks))
    IN  CASE suffix.tag = "Local" ->
               after(<<LOOKUP_TABLE[1]>>,
                     encode_number(suffix.i, size - 1, overflow_checks))
          [] suffix.tag = "Job" ->
               encode_number(suffix.i, size, overflow_checks)
          [] suffix.tag = "Child" ->
               child(get_size_for_number(suffix.i, overflow_checks))

(***************************************************************************)
(* Identifiers (common/core/identifiers.rs).                               *)
(***************************************************************************)
is_client_id_char(ch) == ch \in UpperCase \/ ch \in LowerCase \/ ch \in Digits

is_ident_leader(ch) == ch \in UpperCase \/ ch \in LowerCase \/ ch = "_"

\* an is_ident_char that takes digits as well
is_ident_char_alnum(ch) ==
    ch \in UpperCase \/ ch \in LowerCase \/ ch \in Digits \/ ch = "_" \/ ch = "-"

is_ident_char(ch) == ch \in UpperCase \/ ch \in LowerCase \/ ch = "_" \/ ch = "-"

is_digit(ch) == ch \in Digits

\* ClientID::parse
ClientID_parse(input) ==
    IF input = <<>> THEN None
    ELSE IF \A i \in 1..Len(input) : is_client_id_char(input[i]) THEN Some(input)
    ELSE None

\* the loop of parse_ident_or_module_ident: scans from index i (0-based) and
\* yields "ident" at the end of the input, the index of the first digit of the
\* version, or "bad" at any other character
RECURSIVE IdentScan(_, _)
IdentScan(input, i) ==
    IF i >= Len(input) THEN [end |-> "ident"]
    ELSE IF is_ident_char(input[i + 1]) THEN IdentScan(input, i + 1)
    ELSE IF is_digit(input[i + 1]) /\ input[i + 1] # "0" THEN [end |-> "version", idx |-> i]
    ELSE [end |-> "bad"]

\* Some([name, version]) with version = None for a plain identifier
parse_ident_or_module_ident(input) ==
    LET versioned(idx, version) ==
            IF version = None THEN None
            ELSE IF version.val = 0 THEN None
            ELSE Some([name |-> Slice(input, 0, idx), version |-> version])
        scanned(scan) ==
            CASE scan.end = "ident" -> Some([name |-> input, version |-> None])
              [] scan.end = "bad" -> None
              [] scan.end = "version" ->
                   versioned(scan.idx,
                             decode_u16(Slice(input, scan.idx, Len(input))))
    IN  IF input = <<>> \/ ~is_ident_leader(input[1]) THEN None
        ELSE scanned(IdentScan(input, 1))

Identifier_parse(input) ==
    LET plain(r) ==
            IF r # None /\ r.val.version = None THEN Some(r.val.name) ELSE None
    IN  plain(parse_ident_or_module_ident(input))

ModuleIdentifier_parse(input) ==
    LET versioned(r) ==
            IF r # None /\ r.val.version # None
            THEN Some([source |-> input, name |-> r.val.name,
                       major_version |-> r.val.version.val])
            ELSE None
    IN  versioned(parse_ident_or_module_ident(input))

ScopedIdentifier_parse(input) ==
    LET scoped(module, member) ==
            IF module = None \/ member = None THEN None
            ELSE Some([source |-> input, module |-> module.val,
                       member |-> member.val])
        split(dot) ==
            IF dot = None THEN None
            ELSE scoped(ModuleIdentifier_parse(Slice(input, 0, dot.val)),
                        Identifier_parse(Slice(input, dot.val + 1, Len(input))))
    IN  split(find(input, "."))

MT_INIT == <<"i","n","i","t">>
MT_WANT == <<"w","a","n","t">>
MT_HAVE == <<"h","a","v","e">>
MT_NOPE == <<"n","o","p","e">>

\* MessageType::parse; a message type is kept as [scoped, source, module]
MessageType_parse(input) ==
    LET scoped(s) ==
            IF s = None THEN None
            ELSE Some([scoped |-> TRUE, source |-> input,
                       module |-> s.val.module.source])
    IN  IF input \in {MT_INIT, MT_WANT, MT_HAVE, MT_NOPE}
        THEN Some([scoped |-> FALSE, source |-> input, module |-> <<>>])
        ELSE scoped(ScopedIdentifier_parse(input))

(***************************************************************************)
(* Message parser (common/core/msg/mod.rs).  A cursor is the offset into   *)
(* the buffer; every consume_* yields Ok(new offset or value) or           *)
(* Err(kind, offset of the cursor when the error was raised).              *)
(***************************************************************************)
consume_char(buffer, offset, c, kind) ==
    IF offset >= Len(buffer) THEN Err("UnexpectedEOF", offset)
    ELSE IF buffer[offset + 1] # c THEN Err(kind, offset)
    ELSE Ok(offset + 1)

consume_message_opener(buffer, offset) ==
    consume_char(buffer, offset, "{", "ExpectedMessageOpener")

consume_message_closer(buffer, offset) ==
    consume_char(buffer, offset, "}", "ExpectedMessageCloser")

consume_list_sigil(buffer, offset) ==
    consume_char(buffer, offset, "|", "ExpectedListSigil")

consume_string_sigil(buffer, offset) ==
    consume_char(buffer, offset, ":", "ExpectedStringSigil")

consume_string_closer(buffer, offset) ==
    consume_char(buffer, offset, ",", "ExpectedStringCloser")

\* the offset behind the run of digits starting at offset
RECURSIVE DigitsEnd(_, _)
DigitsEnd(buffer, offset) ==
    IF offset < Len(buffer) /\ isnum(buffer[offset + 1])
    THEN DigitsEnd(buffer, offset + 1)
    ELSE offset

\* a consume_decimal that raises its errors where the number starts
consume_decimal_at_start(buffer, offset) ==
    LET digits(end, digit_str, val) ==
            IF end = offset THEN Err("ExpectedDecimalNumber", offset)
            ELSE IF Len(digit_str) > 1 /\ digit_str[1] = "0"
                 THEN Err("DecimalNumberHasLeadingZeroes", offset)
            ELSE IF val = None THEN Err("DecimalNumberTooLarge", offset)
            ELSE Ok([value |-> val.val, offset |-> end])
        run(end) == digits(end, Slice(buffer, offset, end),
                           ParseUnsigned(Slice(buffer, offset, end),
                                         USIZE_MAX_STR))
    IN  IF offset >= Len(buffer) THEN Err("UnexpectedEOF", offset)
        ELSE run(DigitsEnd(buffer, offset))

\* Ok([value, offset]) or an error
consume_decimal(buffer, offset) ==
    LET number(end, digit_str, val) ==
            IF end = offset THEN Err("ExpectedDecimalNumber", end)
            ELSE IF Len(digit_str) > 1 /\ digit_str[1] = "0"
                 THEN Err("DecimalNumberHasLeadingZeroes", end)
            ELSE IF val = None THEN Err("DecimalNumberTooLarge", end)
            ELSE Ok([value |-> val.val, offset |-> end])
        digits(end, digit_str) ==
            number(end, digit_str, ParseUnsigned(digit_str, USIZE_MAX_STR))
        run(end) == digits(end, Slice(buffer, offset, end))
    IN  IF offset >= Len(buffer) THEN Err("UnexpectedEOF", offset)
        ELSE run(DigitsEnd(buffer, offset))

\* a consume_string_contents that leaves the cursor where the string starts
consume_string_contents_unmoved(buffer, offset, count) ==
    IF offset + count > Len(buffer) THEN Err("UnexpectedEOF", offset)
    ELSE Ok([contents |-> Slice(buffer, offset, offset + count),
             offset |-> offset + count])

\* Ok([contents, offset]) or UnexpectedEOF with the cursor moved to the end
consume_string_contents(buffer, offset, count) ==
    IF offset + count > Len(buffer) THEN Err("UnexpectedEOF", Len(buffer))
    ELSE Ok([contents |-> Slice(buffer, offset, offset + count),
             offset |-> offset + count])

\* MessageIterator::next_or_error on an iterator with remaining_items > 0:
\* Ok([item, offset]) or an error; the steps are listed last to first
next_item(buffer, offset) ==
    LET after_closer(s, closer) ==
            IF ~closer.ok THEN closer
            ELSE Ok([item |-> s.val.contents, offset |-> closer.val])
        after_contents(s) ==
            IF ~s.ok THEN s
            ELSE after_closer(s, consume_string_closer(buffer, s.val.offset))
        after_sigil(count, sigil) ==
            IF ~sigil.ok THEN sigil
            ELSE after_contents(
                     consume_string_contents(buffer, sigil.val, count.val.value))
        after_count(count) ==
            IF ~count.ok THEN count
            ELSE after_sigil(count,
                             consume_string_sigil(buffer, count.val.offset))
    IN  after_count(consume_decimal(buffer, offset))

\* MessageIterator::consume_and_validate, collecting the items on the way:
\* Ok([items, offset]) or the first error
RECURSIVE consume_and_validate(_, _, _, _)
consume_and_validate(buffer, offset, remaining_items, items) ==
    LET after_item(n) ==
            IF ~n.ok THEN n
            ELSE consume_and_validate(buffer, n.val.offset, remaining_items - 1,
                                      Append(items, n.val.item))
    IN  IF remaining_items = 0 THEN Ok([items |-> items, offset |-> offset])
        ELSE after_item(next_item(buffer, offset))

\* Message::parse: Ok([parsed_type, arguments, bytes_parsed]) or an error; the
\* steps are listed last to first
Message_parse(buffer) ==
    LET after_closer(msg_type, rest, closer) ==
            IF ~closer.ok THEN closer
            ELSE Ok([parsed_type |-> msg_type.val, arguments |-> rest.val.items,
                     bytes_parsed |-> closer.val])
        after_arguments(msg_type, rest) ==
            IF ~rest.ok THEN rest
            ELSE after_closer(msg_type, rest,
                              consume_message_closer(buffer, rest.val.offset))
        after_type(count_items, first, msg_type) ==
            IF msg_type = None THEN Err("InvalidMessageType", first.val.offset)
            ELSE after_arguments(msg_type,
                     consume_and_validate(buffer, first.val.offset,
                                          count_items.val.value - 1, <<>>))
        after_str(count_items, first, str) ==
            after_type(count_items, first,
                       IF str = None THEN None ELSE MessageType_parse(str.val))
        after_first(count_items, first) ==
            IF ~first.ok THEN first
            ELSE after_str(count_items, first, from_utf8(first.val.item))
        after_sigil(count_items, sigil) ==
            IF ~sigil.ok THEN sigil
            ELSE IF count_items.val.value = 0
                 THEN Err("ExpectedMessageType", sigil.val)
            ELSE after_first(count_items, next_item(buffer, sigil.val))
        after_count(count_items) ==
            IF ~count_items.ok THEN count_items
            ELSE after_sigil(count_items,
                             consume_list_sigil(buffer, count_items.val.offset))
        after_opener(opener) ==
            IF ~opener.ok THEN opener
            ELSE after_count(consume_decimal(buffer, opener.val))
    IN  after_opener(consume_message_opener(buffer, 0))

(***************************************************************************)
(* Message formatter (common/core/msg/format.rs), on an unbounded buffer:  *)
(* the bytes that MessageFormatter writes for a type and its arguments.    *)
(***************************************************************************)
\* an add_argument that writes the size that a one-digit number takes
add_argument_short(arg) ==
    <<DigitChar(Len(arg) % 10)>> \o <<":">> \o arg \o <<",">>

\* MessageFormatter::add_argument for an argument already encoded as bytes
add_argument(arg) == encode_usize(Len(arg)) \o <<":">> \o arg \o <<",">>

RECURSIVE add_arguments(_)
add_arguments(args) ==
    IF args = <<>> THEN <<>>
    ELSE add_argument(Head(args)) \o add_arguments(Tail(args))

\* MessageFormatter::new(buf, type_name, Len(args)), the add_argument calls
\* and finalize()
FormatMessage(type_name, args) ==
    <<"{">> \o encode_usize(Len(args) + 1) \o <<"|">> \o add_argument(type_name)
    \o add_arguments(args) \o <<"}">>

(***************************************************************************)
(* Message types of vt6/posix and vt6/core (msg/posix.rs, msg/core.rs,     *)
(* msg/mod.rs) with their encoders and decoders.  A decoder gets a parsed  *)
(* message and yields Some(fields) or None.                                *)
(***************************************************************************)
CLIENT_HELLO == <<"p","o","s","i","x","1",".","c","l","i","e","n","t","-","h","e","l","l","o">>
SERVER_HELLO == <<"p","o","s","i","x","1",".","s","e","r","v","e","r","-","h","e","l","l","o">>
STDIN_HELLO == <<"p","o","s","i","x","1",".","s","t","d","i","n","-","h","e","l","l","o">>
STDOUT_HELLO == <<"p","o","s","i","x","1",".","s","t","d","o","u","t","-","h","e","l","l","o">>
CLIENT_MAKE == <<"c","o","r","e","1",".","c","l","i","e","n","t","-","m","a","k","e">>
CLIENT_NEW == <<"c","o","r","e","1",".","c","l","i","e","n","t","-","n","e","w">>
LIFETIME_END == <<"c","o","r","e","1",".","l","i","f","e","t","i","m","e","-","e","n","d">>

\* MessageIterator::exactly1 for an argument type with decoder result d(arg)
exactly1_str(msg) ==
    IF Len(msg.arguments) # 1 THEN None ELSE from_utf8(msg.arguments[1])

\* DecodeArgument for Option<&str>: the empty argument is Some(None)
decode_opt_str(arg) == IF arg = <<>> THEN Some(None) ELSE
    IF from_utf8(arg) = None THEN None ELSE Some(Some(arg))

\* EncodeArgument for Option<&T>: None encodes as the empty argument
encode_opt(o) == IF o = None THEN <<>> ELSE o.val

ClientHello_decode(msg) ==
    IF msg.parsed_type.source # CLIENT_HELLO THEN None ELSE exactly1_str(msg)

ClientHello_encode(secret) == FormatMessage(CLIENT_HELLO, <<secret>>)

StdinHello_decode(msg) ==
    IF msg.parsed_type.source # STDIN_HELLO THEN None ELSE exactly1_str(msg)

StdinHello_encode(secret) == FormatMessage(STDIN_HELLO, <<secret>>)

StdoutHello_decode(msg) ==
    IF msg.parsed_type.source # STDOUT_HELLO THEN None ELSE exactly1_str(msg)

StdoutHello_encode(secret) == FormatMessage(STDOUT_HELLO, <<secret>>)

\* a server-hello that names the client and no screens
ServerHello_encode_bare(identity) ==
    FormatMessage(SERVER_HELLO, <<identity.id, <<>>, <<>>, <<>>>>)

\* ServerHello::encode for a ClientIdentity
ServerHello_encode(identity) ==
    FormatMessage(SERVER_HELLO, <<identity.id, encode_opt(identity.stdin),
                                  encode_opt(identity.stdout),
                                  encode_opt(identity.stderr)>>)

Want_decode(msg) ==
    IF msg.parsed_type.source # MT_WANT THEN None
    ELSE IF Len(msg.arguments) # 1 THEN None
    ELSE ModuleIdentifier_parse(msg.arguments[1])

Want_encode(module) == FormatMessage(MT_WANT, <<module>>)

\* Have::ThisModule(module.with_minor_version(v)) encodes "<module>.<minor>"
Have_ThisModule_encode(module, minor) ==
    FormatMessage(MT_HAVE, <<module \o <<".">> \o encode_usize(minor)>>)

Have_NotThisModule_encode(module) == FormatMessage(MT_HAVE, <<module>>)

Nope_encode == FormatMessage(MT_NOPE, <<>>)

\* Nope(msg.parsed_type()), the nope that names the rejected message type
Nope_type_encode(type) == FormatMessage(MT_NOPE, <<type.source>>)

ClientMake_decode(msg) ==
    IF msg.parsed_type.source # CLIENT_MAKE THEN None
    ELSE IF Len(msg.arguments) # 4 THEN None
    ELSE LET a == ClientID_parse(msg.arguments[1])
             b == decode_opt_str(msg.arguments[2])
             c == decode_opt_str(msg.arguments[3])
             d == decode_opt_str(msg.arguments[4])
         IN  IF a = None \/ b = None \/ c = None \/ d = None THEN None
             ELSE Some([id |-> a.val, stdin |-> b.val, stdout |-> c.val,
                        stderr |-> d.val])

\* ClientMake::encode
ClientMake_encode(m) ==
    FormatMessage(CLIENT_MAKE, <<m.id, encode_opt(m.stdin), encode_opt(m.stdout),
                                 encode_opt(m.stderr)>>)

ClientNew_encode(secret) == FormatMessage(CLIENT_NEW, <<secret>>)

\* LifetimeEnd::decode_message: one argument, the ClientID whose lifetime ends
LifetimeEnd_decode(msg) ==
    IF msg.parsed_type.source # LIFETIME_END THEN None
    ELSE IF Len(msg.arguments) # 1 THEN None
    ELSE ClientID_parse(msg.arguments[1])

LifetimeEnd_encode(client_id) == FormatMessage(LIFETIME_END, <<client_id>>)

\* is p a strict prefix of s
IsStrictPrefix(p, s) == Len(p) < Len(s) /\ SubSeq(s, 1, Len(p)) = p

\* ClientSelector::AtOrBelow(p).contains(id)
AtOrBelow_contains(p, id) == id = p \/ IsStrictPrefix(p, id)

\* ClientSelector::StrictlyBelow(p).contains(id)
StrictlyBelow_contains(p, id) == IsStrictPrefix(p, id)

(***************************************************************************)
(* The want/have handler with module tracking (server/core/handler.rs,     *)
(* server/core/tracker.rs) over the handler of server/core/tests.rs.       *)
(***************************************************************************)
MODULE_TEST == <<"t","e","s","t">>
MODULE_CORE == <<"c","o","r","e">>

\* is_identifier: a leader, and then characters of identifiers only
is_identifier(name) ==
    /\ name # <<>>
    /\ is_ident_leader(name[1])
    /\ \A i \in 2..Len(name) : is_ident_char(name[i])

\* EncodeArgument for ModuleVersion: "<major>.<minor>"
ModuleVersion_encode(version) ==
    encode_integer(version.major) \o <<".">> \o encode_integer(version.minor)

\* Tracker::default(): no module is agreed
Tracker_new == {}

\* Tracker::is_module_enabled; agreed_modules is a set of
\* [name, version] entries with at most one entry for a name
is_module_enabled(agreed_modules, name) ==
    IF \E e \in agreed_modules : e.name = name
    THEN Some((CHOOSE e \in agreed_modules : e.name = name).version)
    ELSE None

\* Tracker::enable_module: panics for a name that has an entry
enable_module(agreed_modules, name, version) ==
    IF is_module_enabled(agreed_modules, name) # None
    THEN [panicked |-> TRUE, agreed_modules |-> agreed_modules]
    ELSE [panicked |-> FALSE,
          agreed_modules |->
              agreed_modules \cup {[name |-> name, version |-> version]}]

\* TestHandler::can_use_module
TestHandler_can_use_module(name, major_version) ==
    IF name = MODULE_TEST /\ major_version = 1 THEN Some(3)
    ELSE IF name = MODULE_TEST /\ major_version = 2 THEN Some(1)
    ELSE None

\* Handler::can_use_module: core 1.0, and for other modules the next handler
can_use_module(name, major_version) ==
    IF name = MODULE_CORE
    THEN IF major_version = 1 THEN Some(0) ELSE None
    ELSE TestHandler_can_use_module(name, major_version)

\* the loop of check_want over the requested major versions
RECURSIVE check_want_loop(_, _, _, _)
check_want_loop(module_name, major_versions, best_major, best_minor) ==
    LET major_version == Head(major_versions)
        usable == can_use_module(module_name, major_version)
    IN  IF major_versions = <<>>
        THEN [major |-> best_major, minor |-> best_minor]
        ELSE IF major_version > best_major /\ usable # None
        THEN check_want_loop(module_name, Tail(major_versions),
                             major_version, usable.val)
        ELSE check_want_loop(module_name, Tail(major_versions),
                             best_major, best_minor)

\* a check_want that does not ask the connection for the agreed version
check_want_untracked(module_name, major_versions, agreed_modules) ==
    LET best == check_want_loop(module_name, major_versions, 0, 0)
    IN  IF best.major = 0 THEN None
        ELSE Some([version |-> best, store |-> TRUE])

\* Handler::check_want: Some([version, store]) or None
check_want(module_name, major_versions, agreed_modules) ==
    LET agreed_version == is_module_enabled(agreed_modules, module_name)
        best == check_want_loop(module_name, major_versions, 0, 0)
    IN  IF agreed_version # None
        THEN IF \E i \in 1..Len(major_versions) :
                    major_versions[i] = agreed_version.val.major
             THEN Some([version |-> agreed_version.val, store |-> FALSE])
             ELSE None
        ELSE IF best.major = 0 THEN None
        ELSE Some([version |-> best, store |-> TRUE])

\* str::from_utf8(arg).ok()?.parse::<u16>().ok()? on an argument
parse_major_version(arg) ==
    IF from_utf8(arg) = None THEN None ELSE from_str("u16", arg)

\* Handler::handle_want on the arguments of a want message and the tracker
\* of the connection: [reply, agreed_modules, panicked], where reply is
\* None or Some(bytes written to the send buffer)
handle_want(arguments, agreed_modules) ==
    LET module_name == arguments[1]
        version_args == Tail(arguments)
        major_versions ==
            [i \in 1..Len(version_args) |->
                parse_major_version(version_args[i]).val]
        silent == [reply |-> None, agreed_modules |-> agreed_modules,
                   panicked |-> FALSE]
        answered(result) ==
            IF result = None
            THEN [reply |-> Some(FormatMessage(MT_HAVE, <<>>)),
                  agreed_modules |-> agreed_modules, panicked |-> FALSE]
            ELSE LET enabled == IF result.val.store
                                THEN enable_module(agreed_modules, module_name,
                                                   result.val.version)
                                ELSE [panicked |-> FALSE,
                                      agreed_modules |-> agreed_modules]
                 IN  IF enabled.panicked
                     THEN [reply |-> None,
                           agreed_modules |-> agreed_modules,
                           panicked |-> TRUE]
                     ELSE [reply |->
                               Some(FormatMessage(MT_HAVE,
                                   <<module_name,
                                     ModuleVersion_encode(result.val.version)>>)),
                           agreed_modules |-> enabled.agreed_modules,
                           panicked |-> FALSE]
    IN  IF arguments = <<>> THEN silent
        ELSE IF from_utf8(module_name) = None THEN silent
        ELSE IF ~is_identifier(module_name) THEN silent
        ELSE IF version_args = <<>> THEN silent
        ELSE IF \E i \in 1..Len(version_args) :
                   \/ parse_major_version(version_args[i]) = None
                   \/ parse_major_version(version_args[i]).val = 0
             THEN silent
        ELSE answered(check_want(module_name, major_versions, agreed_modules))

(***************************************************************************)
(* The Application of example-server/src/main.rs: a list of clients        *)
(* (identity, secret, is_authorized) and one statically allocated screen.  *)
(* Secrets are 32 random base64 characters in the source; the model uses   *)
(* short distinct strings.                                                 *)
(***************************************************************************)
CLIENT_A == <<"a">>
CLIENT_AB == <<"a","b">>
SECRET_A == <<"s","a">>
STDIN_SECRET == <<"s","i">>
STDOUT_SECRET == <<"s","o">>
WRONG_SECRET == <<"s","x">>
SCREEN1 == <<"s","c","r","e","e","n","1">>

\* ClientIdentity::new(id)
ClientIdentity_new(id) == [id |-> id, stdin |-> None, stdout |-> None, stderr |-> None]

\* ClientCredentials::generate() for the n-th registered client: a secret
\* that no other client has
generate_secret(n) == <<"s","n">> \o encode_usize(n)

\* MyApplication as constructed in main()
AppInit ==
    [clients |-> << [identity |-> ClientIdentity_new(CLIENT_A),
                     secret |-> SECRET_A, authorized |-> FALSE] >>,
     stdin_authorized |-> FALSE,
     stdout_authorized |-> FALSE]

\* index of the first client with the secret, 0 if there is none
FindSecret(clients, secret) ==
    LET hits == {i \in 1..Len(clients) : clients[i].secret = secret}
    IN  IF hits = {} THEN 0 ELSE CHOOSE i \in hits : \A j \in hits : i <= j

\* an authorize_client that takes the first client for any secret
authorize_client_any(a, secret) ==
    [app |-> [a EXCEPT !.clients[1].authorized = TRUE],
     result |-> Some(a.clients[1].identity)]

\* an authorize_client that authorizes a secret any number of times
authorize_client_again(a, secret) ==
    LET i == FindSecret(a.clients, secret)
    IN  IF i = 0 THEN [app |-> a, result |-> None]
        ELSE [app |-> [a EXCEPT !.clients[i].authorized = TRUE],
              result |-> Some(a.clients[i].identity)]

\* Application::authorize_client: [app, result]
authorize_client(a, secret) ==
    LET i == FindSecret(a.clients, secret)
    IN  IF i = 0 THEN [app |-> a, result |-> None]
        ELSE IF a.clients[i].authorized THEN [app |-> a, result |-> None]
        ELSE [app |-> [a EXCEPT !.clients[i].authorized = TRUE],
              result |-> Some(a.clients[i].identity)]

\* Application::authorize_stdin: [app, result]
authorize_stdin(a, secret) ==
    IF ~a.stdin_authorized /\ STDIN_SECRET = secret
    THEN [app |-> [a EXCEPT !.stdin_authorized = TRUE], result |-> Some(SCREEN1)]
    ELSE [app |-> a, result |-> None]

\* Application::authorize_stdout: [app, result]
authorize_stdout(a, secret) ==
    IF ~a.stdout_authorized /\ STDOUT_SECRET = secret
    THEN [app |-> [a EXCEPT !.stdout_authorized = TRUE], result |-> Some(SCREEN1)]
    ELSE [app |-> a, result |-> None]

\* a has_clients that finds the client with the ID p alone
has_clients_exact(a, p) ==
    \E i \in 1..Len(a.clients) : a.clients[i].identity.id = p

\* Application::has_clients(ClientSelector::AtOrBelow(p))
has_clients_AtOrBelow(a, p) ==
    \E i \in 1..Len(a.clients) : AtOrBelow_contains(p, a.clients[i].identity.id)

\* Application::register_client: [app, result], result the new secret
register_client(a, identity) ==
    LET creds == generate_secret(Len(a.clients))
    IN  [app |-> [a EXCEPT !.clients = Append(@, [identity |-> identity,
                                                 secret |-> creds,
                                                 authorized |-> FALSE])],
         result |-> creds]

(***************************************************************************)
(* Connection states (server/connection.rs).  A state is [tag, who]: who   *)
(* is the ClientIdentity of a Msgio connection, the screen of a Stdin or   *)
(* Stdout connection and <<>> otherwise.                                   *)
(***************************************************************************)
Handshake == [tag |-> "Handshake", who |-> <<>>]
Msgio(identity) == [tag |-> "Msgio", who |-> identity]
Stdin(screen) == [tag |-> "Stdin", who |-> screen]
Stdout(screen) == [tag |-> "Stdout", who |-> screen]
Teardown == [tag |-> "Teardown", who |-> <<>>]

\* a check that lets messages into every connection that is not in state
\* Teardown
can_receive_messages_alive(state) == state.tag # "Teardown"

can_receive_messages(state) == state.tag \in {"Handshake", "Msgio"}

can_receive_stdin(state) == state.tag = "Stdin"

can_receive_stdin_for_screen(state, id) == state.tag = "Stdin" /\ state.who = id

(***************************************************************************)
(* Handlers.  A handler invocation yields its effect on the connection and *)
(* the application: the new state, the new application, the message it     *)
(* passes to enqueue_message (reply), the closure it passes to             *)
(* enqueue_broadcast (broadcast) and its result.  No handler of the chain  *)
(* makes more than one enqueue call per invocation.                        *)
(***************************************************************************)
Effect(state, a, reply, broadcast, result) ==
    [state |-> state, app |-> a, reply |-> reply, broadcast |-> broadcast,
     result |-> result, calls |-> <<>>]

\* the effect of a handler that first calls fn(arg) of the Application (or
\* Application::notify with a Notification), gets ret and goes on as eff
Called(eff, fn, arg, ret) ==
    [eff EXCEPT !.calls = <<[fn |-> fn, arg |-> arg, ret |-> ret]>> \o @]

\* the closure of core1.lifetime-end (server/core/msg.rs)
LifetimeEndBroadcast(client_id) == [kind |-> "lifetime-end", arg |-> client_id]

\* the closure of the stdin demo task (example-server/src/main.rs)
StdinBroadcast(screen) == [kind |-> "stdin", arg |-> screen]

\* reject::MessageHandler::handle
reject_MessageHandler_handle(msg, state, a) ==
    LET wanted(w) ==
            IF w # None
            THEN Effect(state, a, Some(Have_NotThisModule_encode(w.val.source)),
                        None, "Ok")
            ELSE Effect(state, a, Some(Nope_encode), None, "Ok")
    IN  IF msg.parsed_type.scoped
        THEN Effect(state, a,
                    Some(Have_NotThisModule_encode(msg.parsed_type.module)),
                    None, "Ok")
        ELSE IF msg.parsed_type.source = MT_WANT THEN wanted(Want_decode(msg))
        ELSE Effect(state, a, Some(Nope_encode), None, "Ok")

\* reject::MessageHandler::handle_error
reject_MessageHandler_handle_error(state, a) ==
    Effect(state, a, Some(Nope_encode), None, "Ok")

\* reject::HandshakeHandler::handle and handle_error
reject_HandshakeHandler_handle(state, a) == Effect(Teardown, a, None, None, "Ok")

\* core::HandshakeHandler::handle
HandshakeHandler_handle(msg, state, a) ==
    LET stdin_auth(auth) ==
            IF auth.result = None
            THEN Effect(state, auth.app, None, None, "InvalidMessage")
            ELSE Effect(Stdin(auth.result.val), auth.app, None, None, "Ok")
        stdin_hello(m) ==
            IF m = None THEN Effect(state, a, None, None, "InvalidMessage")
            ELSE Called(stdin_auth(authorize_stdin(a, m.val)),
                        "authorize_stdin", m.val,
                        authorize_stdin(a, m.val).result)
        stdout_auth(auth) ==
            IF auth.result = None
            THEN Effect(state, auth.app, None, None, "InvalidMessage")
            ELSE Effect(Stdout(auth.result.val), auth.app, None, None, "Ok")
        stdout_hello(m) ==
            IF m = None THEN Effect(state, a, None, None, "InvalidMessage")
            ELSE Called(stdout_auth(authorize_stdout(a, m.val)),
                        "authorize_stdout", m.val,
                        authorize_stdout(a, m.val).result)
        client_auth(auth) ==
            IF auth.result = None
            THEN Effect(state, auth.app, None, None, "InvalidMessage")
            ELSE Effect(Msgio(auth.result.val), auth.app,
                        Some(ServerHello_encode(auth.result.val)), None, "Ok")
        client_hello(m) ==
            IF m = None THEN Effect(state, a, None, None, "InvalidMessage")
            ELSE Called(client_auth(authorize_client(a, m.val)),
                        "authorize_client", m.val,
                        authorize_client(a, m.val).result)
    IN  CASE msg.parsed_type.source = STDIN_HELLO ->
               stdin_hello(StdinHello_decode(msg))
          [] msg.parsed_type.source = STDOUT_HELLO ->
               stdout_hello(StdoutHello_decode(msg))
          [] msg.parsed_type.source = CLIENT_HELLO ->
               client_hello(ClientHello_decode(msg))
          [] OTHER -> reject_HandshakeHandler_handle(state, a)

\* a handler chain that supports no module
get_supported_module_version_none(module) == None

\* core::MessageHandler::get_supported_module_version
get_supported_module_version(module) ==
    IF module = <<"c","o","r","e","1">> THEN Some(0) ELSE None

\* a reply that never names a minor version
HaveReply_bare(module) == Have_NotThisModule_encode(module)

\* the reply to a want or to an unknown message of a module
HaveReply(module) ==
    LET have(result) ==
            IF result # None THEN Have_ThisModule_encode(module, result.val)
            ELSE Have_NotThisModule_encode(module)
    IN  have(get_supported_module_version(module))

\* core::MessageHandler::handle; state is Msgio
MessageHandler_handle(msg, state, a) ==
    LET want(w) ==
            IF w = None THEN Effect(state, a, None, None, "InvalidMessage")
            ELSE Effect(state, a, Some(HaveReply(w.val.source)), None, "Ok")
        registered(reg) ==
            Effect(state, reg.app, Some(ClientNew_encode(reg.result)), None, "Ok")
        client_make(m) ==
            IF m = None THEN Effect(state, a, None, None, "InvalidMessage")
            ELSE IF ~StrictlyBelow_contains(state.who.id, m.val.id)
            THEN Effect(state, a, Some(Nope_encode), None, "Ok")
            ELSE IF has_clients_AtOrBelow(a, m.val.id)
            THEN Effect(state, a, Some(Nope_encode), None, "Ok")
            ELSE Called(registered(register_client(a, m.val)),
                        "register_client", m.val,
                        Some(register_client(a, m.val).result))
        lifetime_end(m) ==
            IF m = None THEN Effect(state, a, None, None, "InvalidMessage")
            ELSE IF ~StrictlyBelow_contains(state.who.id, m.val)
            THEN Effect(state, a, Some(Nope_encode), None, "Ok")
            ELSE Effect(state, a, None, Some(LifetimeEndBroadcast(m.val)), "Ok")
    IN  CASE msg.parsed_type.source = MT_WANT -> want(Want_decode(msg))
          [] msg.parsed_type.source = CLIENT_MAKE ->
               client_make(ClientMake_decode(msg))
          [] msg.parsed_type.source = LIFETIME_END ->
               lifetime_end(LifetimeEnd_decode(msg))
          [] OTHER -> reject_MessageHandler_handle(msg, state, a)

\* a closure that calls conn.enqueue_stdin(bytes) on every connection,
\* whatever its state
EnqueueStdinBroadcast(bytes) == [kind |-> "enqueue_stdin", arg |-> bytes]

\* a closure that calls conn.enqueue_message(msg) on every connection,
\* whatever its state; bytes is the encoded message
EnqueueMessageBroadcast(bytes) == [kind |-> "enqueue_message", arg |-> bytes]

\* the closure of a broadcast applied to one connection: the new state and
\* the bytes it passes to enqueue_stdin or the message it passes to
\* enqueue_message
ApplyBroadcast(f, state) ==
    CASE f.kind = "lifetime-end" ->
           IF state.tag = "Msgio" /\ AtOrBelow_contains(f.arg, state.who.id)
           THEN [state |-> Teardown, stdin |-> None, message |-> None]
           ELSE [state |-> state, stdin |-> None, message |-> None]
      [] f.kind = "stdin" ->
           IF can_receive_stdin_for_screen(state, f.arg)
           THEN [state |-> state,
                 stdin |-> Some(<<"H","e","l","l","o"," ","s","t","d","i","n",".","\n">>),
                 message |-> None]
           ELSE [state |-> state, stdin |-> None, message |-> None]
      [] f.kind = "enqueue_stdin" ->
           [state |-> state, stdin |-> Some(f.arg), message |-> None]
      [] f.kind = "enqueue_message" ->
           [state |-> state, stdin |-> None, message |-> Some(f.arg)]

(***************************************************************************)
(* Connection::handle_incoming (server/connection.rs), one round of the    *)
(* handle_incoming / handle_incoming_msgio tail recursion.  The result     *)
(* holds the effect of the round, the receive buffer after its discard and *)
(* again: whether handle_incoming_msgio tail-calls handle_incoming.        *)
(***************************************************************************)
Round(eff, buf, again) ==
    [state |-> eff.state, app |-> eff.app, reply |-> eff.reply,
     broadcast |-> eff.broadcast, calls |-> eff.calls, buf |-> buf,
     again |-> again]

\* a recovery that discards the whole buffer
bytes_to_discard_all(buf) == Len(buf)

\* a count of the bytes to discard that looks for the "{" from the first
\* byte on
bytes_to_discard_unskipped(buf) ==
    LET pos == find(buf, "{")
    IN  IF pos # None THEN pos.val ELSE Len(buf)

\* the number of bytes discarded after a parse error: up to the next "{"
\* behind the first byte, or everything
bytes_to_discard(buf) ==
    LET pos == find(Tail(buf), "{")
    IN  IF pos # None THEN pos.val + 1 ELSE Len(buf)

\* a match on (handle_result, handler) that treats the handshake handler as
\* it treats the message handler
baseline_reply_lenient(msg, h, handshake) ==
    IF h.result = "Ok" THEN h
    ELSE IF h.result = "InvalidMessage"
    THEN [h EXCEPT !.reply = Some(Nope_type_encode(msg.parsed_type))]
    ELSE IF msg.parsed_type.scoped
    THEN [h EXCEPT !.reply = Some(HaveReply(msg.parsed_type.module))]
    ELSE [h EXCEPT !.reply = Some(Nope_type_encode(msg.parsed_type))]

\* the match on (handle_result, handler) in handle_incoming_msgio: the
\* baseline reply to a message that the handler chain has not answered
baseline_reply(msg, h, handshake) ==
    IF h.result = "Ok" THEN h
    ELSE IF handshake THEN [h EXCEPT !.state = Teardown]
    ELSE IF h.result = "InvalidMessage"
    THEN [h EXCEPT !.reply = Some(Nope_type_encode(msg.parsed_type))]
    ELSE IF msg.parsed_type.scoped
    THEN [h EXCEPT !.reply = Some(HaveReply(msg.parsed_type.module))]
    ELSE [h EXCEPT !.reply = Some(Nope_type_encode(msg.parsed_type))]

\* handle_incoming_msgio without its tail call
handle_incoming_msgio(state, buf, a) ==
    LET handshake == state.tag = "Handshake"
        handled(msg, h) ==
            Round(baseline_reply(msg, h, handshake),
                  Slice(buf, msg.bytes_parsed, Len(buf)), TRUE)
        failed(h) ==
            Round(Called(IF h.state.tag = "Handshake"
                         THEN [h EXCEPT !.state = Teardown] ELSE h,
                         "notify_IncomingBytesDiscarded",
                         Slice(buf, 0, bytes_to_discard(buf)), None),
                  Slice(buf, bytes_to_discard(buf), Len(buf)), TRUE)
        dispatch(parsed) ==
            IF parsed.ok
            THEN handled(parsed.val,
                         IF handshake
                         THEN HandshakeHandler_handle(parsed.val, state, a)
                         ELSE MessageHandler_handle(parsed.val, state, a))
            ELSE IF parsed.kind = "UnexpectedEOF"
            THEN Round(Effect(state, a, None, None, "Ok"), buf, FALSE)
            ELSE failed(IF handshake
                        THEN reject_HandshakeHandler_handle(state, a)
                        ELSE reject_MessageHandler_handle_error(state, a))
    IN  dispatch(Message_parse(buf))

\* a handle_incoming that takes a connection in state Teardown back to
\* state Handshake
handle_incoming_reopening(state, buf, a) ==
    IF buf = <<>> THEN Round(Effect(state, a, None, None, "Ok"), buf, FALSE)
    ELSE CASE state.tag \in {"Handshake", "Msgio"} ->
                handle_incoming_msgio(state, buf, a)
           [] state.tag = "Stdin" ->
                Round(Called(Effect(Teardown, a, None, None, "Ok"),
                             "notify_IncomingBytesDiscarded", buf, None),
                      <<>>, FALSE)
           [] state.tag = "Stdout" ->
                Round(Called(Effect(state, a, None, None, "Ok"),
                             "StdoutConnector_receive", buf, None),
                      <<>>, FALSE)
           [] state.tag = "Teardown" ->
                Round(Effect(Handshake, a, None, None, "Ok"), buf, FALSE)

\* a handle_incoming that drops what a Stdin connection receives and leaves
\* the connection open
handle_incoming_forgiving(state, buf, a) ==
    IF buf = <<>> THEN Round(Effect(state, a, None, None, "Ok"), buf, FALSE)
    ELSE CASE state.tag \in {"Handshake", "Msgio"} ->
                handle_incoming_msgio(state, buf, a)
           [] state.tag = "Stdin" ->
                Round(Effect(state, a, None, None, "Ok"), <<>>, FALSE)
           [] state.tag = "Stdout" ->
                Round(Called(Effect(state, a, None, None, "Ok"),
                             "StdoutConnector_receive", buf, None),
                      <<>>, FALSE)
           [] state.tag = "Teardown" ->
                Round(Effect(state, a, None, None, "Ok"), buf, FALSE)

\* a handle_incoming that leaves in the buffer what it has passed to the
\* StdoutConnector
handle_incoming_keeping(state, buf, a) ==
    IF buf = <<>> THEN Round(Effect(state, a, None, None, "Ok"), buf, FALSE)
    ELSE CASE state.tag \in {"Handshake", "Msgio"} ->
                handle_incoming_msgio(state, buf, a)
           [] state.tag = "Stdin" ->
                Round(Called(Effect(Teardown, a, None, None, "Ok"),
                             "notify_IncomingBytesDiscarded", buf, None),
                      <<>>, FALSE)
           [] state.tag = "Stdout" ->
                Round(Called(Effect(state, a, None, None, "Ok"),
                             "StdoutConnector_receive", buf, None),
                      buf, FALSE)
           [] state.tag = "Teardown" ->
                Round(Effect(state, a, None, None, "Ok"), buf, FALSE)

\* handle_incoming
handle_incoming(state, buf, a) ==
    IF buf = <<>> THEN Round(Effect(state, a, None, None, "Ok"), buf, FALSE)
    ELSE CASE state.tag \in {"Handshake", "Msgio"} ->
                handle_incoming_msgio(state, buf, a)
           [] state.tag = "Stdin" ->
                Round(Called(Effect(Teardown, a, None, None, "Ok"),
                             "notify_IncomingBytesDiscarded", buf, None),
                      <<>>, FALSE)
           [] state.tag = "Stdout" ->
                Round(Called(Effect(state, a, None, None, "Ok"),
                             "StdoutConnector_receive", buf, None),
                      <<>>, FALSE)
           [] state.tag = "Teardown" ->
                Round(Effect(state, a, None, None, "Ok"), buf, FALSE)

(***************************************************************************)
(* Send buffers (server/tokio/transmitter.rs) and the send buffer queue of *)
(* a TxConnector (server/tokio/dispatch.rs).  A SendBuffer is modelled by  *)
(* its filled part, at most SendBufferCap bytes.                           *)
(***************************************************************************)
\* SendBuffer::fill_if_ok with the encoder of a message: [ok, buf]
fill_if_ok(b, bytes) ==
    IF Len(bytes) <= SendBufferCap - Len(b)
    THEN [ok |-> TRUE, buf |-> b \o bytes]
    ELSE [ok |-> FALSE, buf |-> b]

\* a fill_until_full that returns the input behind the byte that did not
\* fit
fill_until_full_lossy(b, input) ==
    LET room == SendBufferCap - Len(b)
        len == IF Len(input) < room THEN Len(input) ELSE room
    IN  [buf |-> b \o SubSeq(input, 1, len),
         rest |-> SubSeq(input, len + 2, Len(input))]

\* SendBuffer::fill_until_full: [buf, rest]
fill_until_full(b, input) ==
    LET room == SendBufferCap - Len(b)
        len == IF Len(input) < room THEN Len(input) ELSE room
    IN  [buf |-> b \o SubSeq(input, 1, len),
         rest |-> SubSeq(input, len + 1, Len(input))]

\* index of the last buffer that holds data, 0 if there is none
LastFilled(bufs) ==
    LET f == {i \in 1..Len(bufs) : Len(bufs[i]) > 0}
    IN  IF f = {} THEN 0 ELSE CHOOSE i \in f : \A j \in f : j <= i

\* index of the first buffer that holds no data, 0 if there is none
FirstEmpty(bufs) ==
    LET e == {i \in 1..Len(bufs) : Len(bufs[i]) = 0}
    IN  IF e = {} THEN 0 ELSE CHOOSE i \in e : \A j \in e : i <= j

\* the while loop of Dispatch::enqueue_stdin
RECURSIVE enqueue_stdin_loop(_, _)
enqueue_stdin_loop(bufs, input) ==
    IF input = <<>> THEN bufs
    ELSE LET e == FirstEmpty(bufs)
             bufs2 == IF e = 0 THEN Append(bufs, <<>>) ELSE bufs
             idx == IF e = 0 THEN Len(bufs2) ELSE e
             filled == fill_until_full(bufs2[idx], input)
         IN  enqueue_stdin_loop([bufs2 EXCEPT ![idx] = filled.buf], filled.rest)

\* the buffer queue part of Dispatch::enqueue_stdin
enqueue_stdin_bufs(bufs, input) ==
    LET last == LastFilled(bufs)
    IN  IF last = 0 THEN enqueue_stdin_loop(bufs, input)
        ELSE LET filled == fill_until_full(bufs[last], input)
             IN  enqueue_stdin_loop([bufs EXCEPT ![last] = filled.buf], filled.rest)

\* an enqueue_message that fills the buffers as enqueue_stdin does
enqueue_message_bufs_split(bufs, bytes) ==
    [bufs |-> enqueue_stdin_bufs(bufs, bytes), panic |-> FALSE]

\* the buffer queue part of Dispatch::enqueue_message: [bufs, panic]
enqueue_message_bufs(bufs, bytes) ==
    LET last == LastFilled(bufs)
        first_try == IF last = 0 THEN [ok |-> FALSE]
                     ELSE fill_if_ok(bufs[last], bytes)
    IN  IF first_try.ok
        THEN [bufs |-> [bufs EXCEPT ![last] = first_try.buf], panic |-> FALSE]
        ELSE LET e == FirstEmpty(bufs)
                 bufs2 == IF e = 0 THEN Append(bufs, <<>>) ELSE bufs
                 idx == IF e = 0 THEN Len(bufs2) ELSE e
                 second_try == fill_if_ok(bufs2[idx], bytes)
             IN  IF second_try.ok
                 THEN [bufs |-> [bufs2 EXCEPT ![idx] = second_try.buf],
                       panic |-> FALSE]
                 ELSE [bufs |-> bufs2, panic |-> TRUE]

\* RemoveAt(s, 1) is Vec::remove(0)
RemoveFirst(s) == SubSeq(s, 2, Len(s))

\* a swap_send_buffer that hands out the last filled buffer of the queue
swap_send_buffer_bufs_last(bufs, buf) ==
    LET bufs2 == IF buf # None THEN Append(bufs, <<>>) ELSE bufs
        last == LastFilled(bufs2)
    IN  IF last = 0 THEN [bufs |-> bufs2, result |-> None]
        ELSE [bufs |-> SubSeq(bufs2, 1, last - 1)
                       \o SubSeq(bufs2, last + 1, Len(bufs2)),
              result |-> Some(bufs2[last])]

\* a swap_send_buffer that leaves an empty buffer at index 0 in place of the
\* buffer that it hands out
swap_send_buffer_bufs_keep(bufs, buf) ==
    LET bufs2 == IF buf # None THEN Append(bufs, <<>>) ELSE bufs
    IN  IF \A i \in 1..Len(bufs2) : Len(bufs2[i]) = 0
        THEN [bufs |-> bufs2, result |-> None]
        ELSE [bufs |-> [bufs2 EXCEPT ![1] = <<>>], result |-> Some(bufs2[1])]

\* the buffer queue part of InnerDispatch::swap_send_buffer: [bufs, result]
swap_send_buffer_bufs(bufs, buf) ==
    LET bufs2 == IF buf # None THEN Append(bufs, <<>>) ELSE bufs
    IN  IF \A i \in 1..Len(bufs2) : Len(bufs2[i]) = 0
        THEN [bufs |-> bufs2, result |-> None]
        ELSE [bufs |-> RemoveFirst(bufs2), result |-> Some(bufs2[1])]

(***************************************************************************)
(* The Tokio dispatch (server/tokio/dispatch.rs, receiver.rs,              *)
(* transmitter.rs) as a set of threads: the accept loop of run_listener,   *)
(* one receiver job and one transmitter job per connection, and the demo   *)
(* task of the example server that calls enqueue_broadcast from outside of *)
(* any handler.  A step of a thread is one acquisition of a lock, or the   *)
(* work done under the locks it holds up to its next acquisition, or one   *)
(* completed await.                                                        *)
(***************************************************************************)
VARIABLES
    conns,              \* pool.conns: connection id -> [state]
    next_connection_id, \* pool.next_connection_id
    tx,                 \* InnerDispatch::tx: connection id -> [bufs]
    notify,             \* the permit of each connection's tx_notify
    bc_queue,           \* InnerDispatch::bc_queue
    app,                \* the Application
    pool_lock,          \* the thread holding pool.write(), or NoThread
    tx_lock,            \* the thread holding tx.write(), or NoThread
    bc_lock,            \* the thread holding bc_queue.lock(), or NoThread
    pc,                 \* where each thread is
    rx_aborted,         \* connections whose rx_abort handle was triggered
    tx_aborted,         \* connections whose tx_abort handle was triggered
    rxl,                \* locals of each receiver job: [buf, bytes_read, reads]
    txl,                \* locals of each transmitter job: its send buffer
    hold,               \* locals of the thread that holds the pool lock
    written,            \* the bytes written to each client socket
    ext_calls,          \* enqueue_broadcast calls made by the demo task
    enq_log,            \* history: the enqueue calls stored for each connection
    bc_hist,            \* history of the broadcasts, see BcHistInit
    listener,           \* run_listener: [abort, resolved, bound]
    notes,              \* history: what the Application was called with
    probe               \* what a specification fixes at its start: the input
                        \* (and then the result) of a function applied alone,
                        \* the closures passed to enqueue_broadcast, or None

vars == <<conns, next_connection_id, tx, notify, bc_queue, app, pool_lock,
          tx_lock, bc_lock, pc, rx_aborted, tx_aborted, rxl, txl, hold,
          written, ext_calls, enq_log, bc_hist, listener, notes, probe>>

ConnIds == 0..(MaxConns - 1)

NoThread == <<"none", 0>>
AcceptLoop == <<"accept", 0>>
DemoTask == <<"ext", 0>>
Receiver(c) == <<"rx", c>>
Transmitter(c) == <<"tx", c>>

Threads ==
    {AcceptLoop, DemoTask} \cup {Receiver(c) : c \in ConnIds}
    \cup {Transmitter(c) : c \in ConnIds}

\* the locals of a thread that holds no pool lock
\*   conn_id:   the conn_id of the ConnectionRefMut, -1 for the plain guard
\*              of enqueue_broadcast
\*   out:       the argument of the pending enqueue_message/enqueue_stdin
\*   target:    the connection of the pending enqueue or removal
\*   broadcast: the argument of the pending enqueue_broadcast
\*   ctx:       the caller of the pending call
\*   broadcasts, todo: the two loops of do_maintenance: the broadcasts
\*              swapped out of the queue and not yet done, and the
\*              connections that values_mut() has yet to yield
\*   there_were_broadcasts, sweep: as in do_maintenance; sweep is what is
\*              left of all_conn_ids
\*   ret:       where the thread goes on when it has released the lock
HoldIdle ==
    [conn_id |-> -1, out |-> None, target |-> -1, broadcast |-> None,
     ctx |-> "none", broadcasts |-> <<>>, todo |-> {}, hits |-> <<>>,
     there_were_broadcasts |-> FALSE, sweep |-> {}, ret |-> "none"]

\* history of the broadcasts that have been pushed and whose loop over the
\* connections has not ended yet
\*   calls:    the number of enqueue_broadcast calls that have pushed; the
\*             n-th of them pushes broadcast n
\*   returned: the broadcasts whose enqueue_broadcast call has returned
\*   pred:     for each broadcast, before: the broadcasts that had returned
\*             when its enqueue_broadcast was called, and ordered: whether
\*             there was one
\*   started:  the broadcasts that have been applied to some connection
\*   at_call:  for each thread inside enqueue_broadcast, the broadcasts that
\*             had returned when it made the call
\*   in_call:  for each thread inside enqueue_broadcast that has pushed,
\*             the broadcast it has pushed
BcHistInit ==
    [calls |-> 0, returned |-> {}, pred |-> [b \in {} |-> {}], started |-> {},
     at_call |-> [t \in {} |-> {}], in_call |-> [t \in {} |-> 0]]

\* InnerDispatch::abort and the socket path before run_listener is called
\*   abort:          "none" for None, "armed" for Some(handle), "aborted"
\*                   for a handle whose abort() was called
\*   bound:          whether the server socket exists at the path
\*   resolved:       what the run_listener() future has resolved to
\*   shutdown_calls: the number of calls of shutdown() so far
ListenerInit ==
    [abort |-> "none", bound |-> FALSE, resolved |-> "pending",
     shutdown_calls |-> 0]

\* history of the calls of the Application
\*   io_errors: for each connection, the number of ConnectionIOError
\*              notifications
\*   hs_failed: the connections whose handshake has failed, see
\*              HandshakeFails
\*   auth:      for each <<authorize function, secret>> called so far, the
\*              number of calls
\*   granted:   for each <<authorize function, secret>>, the number of calls
\*              that have returned Some
\*   auth_conn: for each connection, the number of authorize calls made by
\*              its handshake
\*   arrived:   for each connection, the bytes that read_buf has yielded
\*   stdout:    for each connection, the slices passed to
\*              StdoutConnector::receive
\*   discarded: for each connection, the slices of the
\*              IncomingBytesDiscarded notifications
\*   opened:    the number of ConnectionOpened notifications
\*   closed:    the number of ConnectionClosed notifications
NotesInit ==
    [io_errors |-> [c \in ConnIds |-> 0], hs_failed |-> {}, auth |-> <<>>,
     granted |-> <<>>, auth_conn |-> [c \in ConnIds |-> 0],
     arrived |-> [c \in ConnIds |-> <<>>],
     stdout |-> [c \in ConnIds |-> <<>>],
     discarded |-> [c \in ConnIds |-> <<>>],
     opened |-> 0, closed |-> 0]

\* m with the entry for key k set to v, and with the entry for k removed
MapInsert(m, k, v) == [x \in DOMAIN m \cup {k} |-> IF x = k THEN v ELSE m[x]]
MapRemove(m, k) == [x \in DOMAIN m \ {k} |-> m[x]]

\* the Dispatch after Dispatch::new, before run_listener is called
InitDispatch ==
    /\ conns = <<>>
    /\ next_connection_id = 0
    /\ tx = <<>>
    /\ notify = [c \in ConnIds |-> FALSE]
    /\ bc_queue = <<>>
    /\ app = AppInit
    /\ pool_lock = NoThread
    /\ tx_lock = NoThread
    /\ bc_lock = NoThread
    /\ pc = [t \in Threads |->
               IF t = AcceptLoop THEN "start"
               ELSE IF t = DemoTask THEN "sleep" ELSE "unborn"]
    /\ rx_aborted = {}
    /\ tx_aborted = {}
    /\ rxl = [c \in ConnIds |-> [buf |-> <<>>, bytes_read |-> 0, reads |-> 0]]
    /\ txl = [c \in ConnIds |-> None]
    /\ hold = HoldIdle
    /\ written = [c \in ConnIds |-> <<>>]
    /\ ext_calls = 0
    /\ enq_log = [c \in ConnIds |-> <<>>]
    /\ bc_hist = BcHistInit
    /\ listener = ListenerInit
    /\ notes = NotesInit

Init == InitDispatch /\ probe = None

(***************************************************************************)
(* run_listener: the accept loop.                                          *)
(***************************************************************************)
\* run_listener up to its accept loop: the socket is bound and the abort
\* handle is stored for shutdown()
ListenerStart ==
    /\ pc[AcceptLoop] = "start"
    /\ listener' = [listener EXCEPT !.abort = "armed", !.bound = TRUE]
    /\ pc' = [pc EXCEPT ![AcceptLoop] = "accept"]
    /\ UNCHANGED <<conns, next_connection_id, tx, notify, bc_queue, app,
                   pool_lock, tx_lock, bc_lock, rx_aborted, tx_aborted, rxl,
                   txl, hold, written, ext_calls, enq_log, bc_hist, notes,
                   probe>>

\* shutdown(): the stored abort handle, if there is one, is triggered
Shutdown(max_calls) ==
    /\ listener.shutdown_calls < max_calls
    /\ listener' = [listener EXCEPT
                      !.abort = IF @ = "none" THEN "none" ELSE "aborted",
                      !.shutdown_calls = @ + 1]
    /\ UNCHANGED <<conns, next_connection_id, tx, notify, bc_queue, app,
                   pool_lock, tx_lock, bc_lock, pc, rx_aborted, tx_aborted,
                   rxl, txl, hold, written, ext_calls, enq_log, bc_hist,
                   notes, probe>>

\* the Abortable around the accept loop ends it at listener.accept().await
AcceptAborted ==
    /\ pc[AcceptLoop] = "accept"
    /\ listener.abort = "aborted"
    /\ pc' = [pc EXCEPT ![AcceptLoop] = "stop_lock"]
    /\ UNCHANGED <<conns, next_connection_id, tx, notify, bc_queue, app,
                   pool_lock, tx_lock, bc_lock, rx_aborted, tx_aborted, rxl,
                   txl, hold, written, ext_calls, enq_log, bc_hist, listener,
                   notes, probe>>

\* run_listener after the loop: self.0.pool.write()
StopLock ==
    /\ pc[AcceptLoop] = "stop_lock"
    /\ pool_lock = NoThread
    /\ pool_lock' = AcceptLoop
    /\ pc' = [pc EXCEPT ![AcceptLoop] = "stop_abort"]
    /\ UNCHANGED <<conns, next_connection_id, tx, notify, bc_queue, app,
                   tx_lock, bc_lock, rx_aborted, tx_aborted, rxl, txl, hold,
                   written, ext_calls, enq_log, bc_hist, listener, notes,
                   probe>>

\* run_listener after the loop: the jobs of every connection of the pool are
\* aborted, the guard and the listener are dropped, the socket is removed
StopAbortAll ==
    /\ pc[AcceptLoop] = "stop_abort"
    /\ rx_aborted' = rx_aborted \cup DOMAIN conns
    /\ tx_aborted' = tx_aborted \cup DOMAIN conns
    /\ pool_lock' = NoThread
    /\ listener' = [listener EXCEPT !.bound = FALSE, !.resolved = "Ok"]
    /\ pc' = [pc EXCEPT ![AcceptLoop] = "done"]
    /\ UNCHANGED <<conns, next_connection_id, tx, notify, bc_queue, app,
                   tx_lock, bc_lock, rxl, txl, hold, written, ext_calls,
                   enq_log, bc_hist, notes, probe>>

\* listener.accept() yields a socket and create_connection_object takes the
\* pool lock
AcceptLock(max_conns) ==
    /\ pc[AcceptLoop] = "accept"
    /\ listener.abort = "armed"
    /\ next_connection_id < max_conns
    /\ pool_lock = NoThread
    /\ pool_lock' = AcceptLoop
    /\ pc' = [pc EXCEPT ![AcceptLoop] = "acc_insert"]
    /\ UNCHANGED <<conns, next_connection_id, tx, notify, bc_queue, app, tx_lock,
                   bc_lock, rx_aborted, tx_aborted, rxl, txl, hold, written,
                   ext_calls, enq_log, bc_hist, listener, notes, probe>>

\* create_connection_object: the new pool entry, then the guard is dropped
AcceptInsert ==
    /\ pc[AcceptLoop] = "acc_insert"
    /\ conns' = MapInsert(conns, next_connection_id, [state |-> Handshake])
    /\ next_connection_id' = next_connection_id + 1
    /\ pool_lock' = NoThread
    /\ pc' = [pc EXCEPT ![AcceptLoop] = "acc_tx_lock"]
    /\ UNCHANGED <<tx, notify, bc_queue, app, tx_lock, bc_lock, rx_aborted,
                   tx_aborted, rxl, txl, hold, written, ext_calls, enq_log,
                   bc_hist, listener, notes, probe>>

\* create_connection_object: self.tx.write()
AcceptTxLock ==
    /\ pc[AcceptLoop] = "acc_tx_lock"
    /\ tx_lock = NoThread
    /\ tx_lock' = AcceptLoop
    /\ pc' = [pc EXCEPT ![AcceptLoop] = "acc_tx"]
    /\ UNCHANGED <<conns, next_connection_id, tx, notify, bc_queue, app,
                   pool_lock, bc_lock, rx_aborted, tx_aborted, rxl, txl, hold,
                   written, ext_calls, enq_log, bc_hist,
                   listener, notes, probe>>

\* create_connection_object: the new TxConnector; then the accept loop spawns
\* the receiver and the transmitter of the connection, which can run from
\* then on, and goes on at next_pc after `opened` notifications
AcceptTxInsertTo(next_pc, opened) ==
    LET conn_id == next_connection_id - 1
    IN  /\ pc[AcceptLoop] = "acc_tx"
        /\ tx' = MapInsert(tx, conn_id, [bufs |-> <<>>])
        /\ tx_lock' = NoThread
        /\ notes' = [notes EXCEPT !.opened = @ + opened]
        /\ pc' = [pc EXCEPT ![AcceptLoop] = next_pc,
                            ![Receiver(conn_id)] = "read",
                            ![Transmitter(conn_id)] = "notified"]
        /\ UNCHANGED <<conns, next_connection_id, notify, bc_queue, app,
                       pool_lock, bc_lock, rx_aborted, tx_aborted, rxl, txl,
                       hold, written, ext_calls, enq_log, bc_hist,
                       listener, probe>>

\* the end of an iteration of the accept loop as one step, up to the next
\* listener.accept().await: the TxConnector, the two spawns and
\* app.notify(ConnectionOpened)
AcceptTxInsert == AcceptTxInsertTo("accept", 1)

\* the same in two steps, for the specification that looks at the order of
\* the notifications: first the TxConnector and the two spawns,
AcceptSpawn == AcceptTxInsertTo("acc_notify", 0)

\* and then app.notify(ConnectionOpened), while the spawned jobs run
AcceptNotifyOpened ==
    /\ pc[AcceptLoop] = "acc_notify"
    /\ notes' = [notes EXCEPT !.opened = @ + 1]
    /\ pc' = [pc EXCEPT ![AcceptLoop] = "accept"]
    /\ UNCHANGED <<conns, next_connection_id, tx, notify, bc_queue, app,
                   pool_lock, tx_lock, bc_lock, rx_aborted, tx_aborted, rxl,
                   txl, hold, written, ext_calls, enq_log, bc_hist,
                   listener, probe>>

(***************************************************************************)
(* spawn_receiver: the receiver job of connection c.                       *)
(***************************************************************************)
\* reader.read_buf() yields the bytes of chunk, and the job gets the pool
\* lock in dispatch.connection_mut(conn_id) to pass them to handle_incoming
RxRead(c, max_reads, chunks) ==
    /\ pc[Receiver(c)] = "read"
    /\ c \notin rx_aborted
    /\ rxl[c].reads < max_reads
    /\ pool_lock = NoThread
    /\ \E chunk \in chunks :
         /\ rxl' = [rxl EXCEPT ![c] = [buf |-> rxl[c].buf \o chunk,
                                       bytes_read |-> Len(chunk),
                                       reads |-> rxl[c].reads + 1]]
         /\ notes' = [notes EXCEPT !.arrived[c] = @ \o chunk]
    /\ pool_lock' = Receiver(c)
    /\ hold' = [HoldIdle EXCEPT !.conn_id = c, !.ret = "read"]
    /\ pc' = [pc EXCEPT ![Receiver(c)] =
                IF c \in DOMAIN conns THEN "round" ELSE "drop"]
    /\ UNCHANGED <<conns, next_connection_id, tx, notify, bc_queue, app,
                   tx_lock, bc_lock, rx_aborted, tx_aborted, txl, written,
                   ext_calls, enq_log, bc_hist, listener, probe>>

\* reader.read_buf() yields Ok(0), the client has closed its end, while the
\* buffer holds an incomplete message: the job gets the pool lock to pass
\* the buffer to handle_incoming once more
RxEof(c) ==
    /\ pc[Receiver(c)] = "read"
    /\ c \notin rx_aborted
    /\ Len(rxl[c].buf) > 0
    /\ pool_lock = NoThread
    /\ rxl' = [rxl EXCEPT ![c].bytes_read = 0]
    /\ pool_lock' = Receiver(c)
    /\ hold' = [HoldIdle EXCEPT !.conn_id = c, !.ret = "close_acq"]
    /\ pc' = [pc EXCEPT ![Receiver(c)] =
                IF c \in DOMAIN conns THEN "round" ELSE "drop"]
    /\ UNCHANGED <<conns, next_connection_id, tx, notify, bc_queue, app,
                   tx_lock, bc_lock, rx_aborted, tx_aborted, txl, written,
                   ext_calls, enq_log, bc_hist, listener, notes, probe>>

\* reader.read_buf() yields an error: the Application is notified of a
\* ConnectionIOError and the job is left with closing the connection
RxError(c) ==
    /\ pc[Receiver(c)] = "read"
    /\ c \notin rx_aborted
    /\ notes' = [notes EXCEPT !.io_errors[c] = @ + 1]
    /\ pc' = [pc EXCEPT ![Receiver(c)] = "close_acq"]
    /\ UNCHANGED <<conns, next_connection_id, tx, notify, bc_queue, app,
                   pool_lock, tx_lock, bc_lock, rx_aborted, tx_aborted, rxl,
                   txl, hold, written, ext_calls, enq_log, bc_hist,
                   listener, probe>>

\* reader.read_buf() yields Ok(0) on an empty buffer: handle_incoming is
\* skipped and the job is left with closing the connection
RxClosed(c) ==
    /\ pc[Receiver(c)] = "read"
    /\ c \notin rx_aborted
    /\ Len(rxl[c].buf) = 0
    /\ pc' = [pc EXCEPT ![Receiver(c)] = "close_acq"]
    /\ UNCHANGED <<conns, next_connection_id, tx, notify, bc_queue, app,
                   pool_lock, tx_lock, bc_lock, rx_aborted, tx_aborted, rxl,
                   txl, hold, written, ext_calls, enq_log, bc_hist,
                   listener, notes, probe>>

\* dispatch.connection_mut(conn_id).alive() and set_state(Teardown): the
\* receiver after EOF or a read error, the transmitter after a write error
CloseAcquire(t) ==
    /\ pc[t] = "close_acq"
    /\ pool_lock = NoThread
    /\ pool_lock' = t
    /\ hold' = [HoldIdle EXCEPT !.conn_id = t[2], !.ret = "done"]
    /\ conns' = IF t[2] \in DOMAIN conns
                THEN [conns EXCEPT ![t[2]].state = Teardown] ELSE conns
    /\ pc' = [pc EXCEPT ![t] = "drop"]
    /\ UNCHANGED <<next_connection_id, tx, notify, bc_queue, app, tx_lock,
                   bc_lock, rx_aborted, tx_aborted, rxl, txl, written,
                   ext_calls, enq_log, bc_hist, listener, notes, probe>>

\* the Application accepts a hello of the given type with the given secret
Accepts(a, type, secret) ==
    CASE type = CLIENT_HELLO ->
           \E i \in 1..Len(a.clients) :
              a.clients[i].secret = secret /\ ~a.clients[i].authorized
      [] type = STDIN_HELLO -> secret = STDIN_SECRET /\ ~a.stdin_authorized
      [] type = STDOUT_HELLO -> secret = STDOUT_SECRET /\ ~a.stdout_authorized
      [] OTHER -> FALSE

\* the input is a well-formed hello whose secret the Application accepts
IsAcceptedHello(a, parsed) ==
    /\ parsed.ok
    /\ parsed.val.parsed_type.source \in {CLIENT_HELLO, STDIN_HELLO, STDOUT_HELLO}
    /\ Len(parsed.val.arguments) = 1
    /\ from_utf8(parsed.val.arguments[1]) # None
    /\ Accepts(a, parsed.val.parsed_type.source, parsed.val.arguments[1])

\* the receive buffer starts with a complete input: a message, or bytes
\* that no continuation makes a message
IsComplete(buf, parsed) ==
    buf # <<>> /\ (parsed.ok \/ parsed.kind # "UnexpectedEOF")

\* the receive buffer of a connection in state Handshake starts with a
\* failed handshake: a definitive parse error, a message that is no hello,
\* a malformed hello or a secret that the Application rejects
HandshakeFails(a, buf) ==
    LET fails(parsed) == IsComplete(buf, parsed) /\ ~IsAcceptedHello(a, parsed)
    IN  fails(Message_parse(buf))

\* m with the count at key k raised by one
Count(m, k) == MapInsert(m, k, IF k \in DOMAIN m THEN m[k] + 1 ELSE 1)

\* the calls of the authorize functions in the call log of a round
AuthorizeCalls(calls) ==
    SelectSeq(calls, LAMBDA call : call.fn \in {"authorize_client",
                                                "authorize_stdin",
                                                "authorize_stdout"})

\* the counts m after the calls, each counted at <<function, secret>>
RECURSIVE NoteCalls(_, _)
NoteCalls(m, calls) ==
    IF calls = <<>> THEN m
    ELSE NoteCalls(Count(m, <<Head(calls).fn, Head(calls).arg>>), Tail(calls))

\* the arguments of the calls of fn in the call log of a round, in order
CallArgs(calls, fn) ==
    LET Arg(i) == SelectSeq(calls, LAMBDA call : call.fn = fn)[i].arg
    IN  [i \in 1..Len(SelectSeq(calls, LAMBDA call : call.fn = fn)) |-> Arg(i)]

\* the history after the round r of handle_incoming on connection c that
\* was in state before with the receive buffer buf and the Application a
NoteRound(n, c, before, buf, a, r) ==
    [n EXCEPT !.hs_failed = IF before.tag = "Handshake" /\ HandshakeFails(a, buf)
                            THEN @ \cup {c} ELSE @,
              !.auth = NoteCalls(@, AuthorizeCalls(r.calls)),
              !.granted = NoteCalls(@, SelectSeq(AuthorizeCalls(r.calls),
                                                 LAMBDA call : call.ret # None)),
              !.auth_conn[c] = @ + Len(AuthorizeCalls(r.calls)),
              !.stdout[c] = @ \o CallArgs(r.calls, "StdoutConnector_receive"),
              !.discarded[c] =
                  @ \o CallArgs(r.calls, "notify_IncomingBytesDiscarded")]

\* one round of conn.handle_incoming(&mut buf), up to the enqueue call of its
\* handler if there is one
HandleIncoming(c) ==
    LET t == Receiver(c)
        round(r) ==
            /\ conns' = [conns EXCEPT ![c].state = r.state]
            /\ app' = r.app
            /\ rxl' = [rxl EXCEPT ![c].buf = r.buf]
            /\ hold' = [hold EXCEPT
                          !.out = IF r.reply # None
                                  THEN Some([kind |-> "message",
                                             bytes |-> r.reply.val])
                                  ELSE None,
                          !.target = c,
                          !.broadcast = r.broadcast,
                          !.ctx = "handler"]
            /\ pc' = [pc EXCEPT ![t] =
                        IF r.reply # None THEN "enq_lock"
                        ELSE IF r.broadcast # None THEN "bc_call"
                        ELSE IF r.again THEN "round" ELSE "drop"]
            /\ bc_hist' = IF r.broadcast # None
                           THEN [bc_hist EXCEPT
                                   !.at_call = MapInsert(@, t, bc_hist.returned)]
                           ELSE bc_hist
            /\ notes' = NoteRound(notes, c, conns[c].state, rxl[c].buf, app, r)
    IN  /\ pc[t] = "round"
        /\ round(handle_incoming(conns[c].state, rxl[c].buf, app))
        /\ UNCHANGED <<next_connection_id, tx, notify, bc_queue, pool_lock,
                       tx_lock, bc_lock, rx_aborted, tx_aborted, txl, written,
                       ext_calls, enq_log, listener, probe>>

(***************************************************************************)
(* Calls made under the pool lock: enqueue_message, enqueue_stdin and      *)
(* enqueue_broadcast (impl server::Dispatch for Dispatch).                 *)
(***************************************************************************)
\* where the holder of the pool lock goes on after a call made from ctx
AfterCall(ctx) ==
    CASE ctx = "handler" -> "round"
      [] ctx = "apply" -> "apply"
      [] ctx = "drop" -> "swap_lock"
      [] ctx = "sweep" -> "sweep"

\* enqueue_message / enqueue_stdin: the check of the connection state, then
\* self.0.tx.write()
EnqueueLock(t) ==
    LET ok == IF hold.out.val.kind = "message"
              THEN can_receive_messages(conns[hold.target].state)
              ELSE can_receive_stdin(conns[hold.target].state)
    IN  /\ pc[t] = "enq_lock"
        /\ IF ok
           THEN /\ tx_lock = NoThread
                /\ tx_lock' = t
                /\ pc' = [pc EXCEPT ![t] = "enq"]
           ELSE /\ pc' = [pc EXCEPT ![t] = "panicked"]
                /\ UNCHANGED tx_lock
        /\ UNCHANGED <<conns, next_connection_id, tx, notify, bc_queue, app,
                       pool_lock, bc_lock, rx_aborted, tx_aborted, rxl, txl,
                       hold, written, ext_calls, enq_log, bc_hist,
                       listener, notes, probe>>

\* a notify_one that stores no permit
notify_one_dropped(permits, c) == permits

\* connector.notify.notify_one(): the transmitter is woken, or, when it does
\* not wait, a permit is stored that its next notified().await takes
notify_one(permits, c) == [permits EXCEPT ![c] = TRUE]

\* enqueue_message / enqueue_stdin under the tx lock: the bytes go into the
\* send buffers of the connection and its transmitter is notified
Enqueue(t) ==
    LET c == hold.target
        out == hold.out.val
        msg_result == enqueue_message_bufs(tx[c].bufs, out.bytes)
        panics == out.kind = "message" /\ msg_result.panic
        bufs == IF out.kind = "message" THEN msg_result.bufs
                ELSE enqueue_stdin_bufs(tx[c].bufs, out.bytes)
    IN  /\ pc[t] = "enq"
        /\ IF c \notin DOMAIN tx
           THEN /\ tx_lock' = NoThread
                /\ pc' = [pc EXCEPT ![t] = AfterCall(hold.ctx)]
                /\ UNCHANGED <<tx, notify, enq_log>>
           ELSE IF panics
           THEN /\ tx' = [tx EXCEPT ![c].bufs = bufs]
                /\ pc' = [pc EXCEPT ![t] = "panicked"]
                /\ UNCHANGED <<tx_lock, notify, enq_log>>
           ELSE /\ tx' = [tx EXCEPT ![c].bufs = bufs]
                /\ notify' = notify_one(notify, c)
                /\ enq_log' = [enq_log EXCEPT ![c] = Append(@, out)]
                /\ tx_lock' = NoThread
                /\ pc' = [pc EXCEPT ![t] = AfterCall(hold.ctx)]
        /\ hold' = [hold EXCEPT !.out = None]
        /\ UNCHANGED <<conns, next_connection_id, bc_queue, app, pool_lock,
                       bc_lock, rx_aborted, tx_aborted, rxl, txl, written,
                       ext_calls, bc_hist, listener, notes, probe>>

\* the demo task wakes up and calls enqueue_broadcast
DemoCall(max_calls) ==
    /\ pc[DemoTask] = "sleep"
    /\ ext_calls < max_calls
    /\ ext_calls' = ext_calls + 1
    /\ bc_hist' = [bc_hist EXCEPT
                     !.at_call = MapInsert(@, DemoTask, bc_hist.returned)]
    /\ pc' = [pc EXCEPT ![DemoTask] = "bc_call"]
    /\ UNCHANGED <<conns, next_connection_id, tx, notify, bc_queue, app,
                   pool_lock, tx_lock, bc_lock, rx_aborted, tx_aborted, rxl,
                   txl, hold, written, enq_log, listener, notes, probe>>

\* enqueue_broadcast: self.0.bc_queue.lock()
BroadcastLock(t) ==
    /\ pc[t] = "bc_call"
    /\ bc_lock = NoThread
    /\ bc_lock' = t
    /\ pc' = [pc EXCEPT ![t] = "bc_push"]
    /\ UNCHANGED <<conns, next_connection_id, tx, notify, bc_queue, app,
                   pool_lock, tx_lock, rx_aborted, tx_aborted, rxl, txl, hold,
                   written, ext_calls, enq_log, bc_hist,
                   listener, notes, probe>>

\* a push to the front of the vector
Vec_push_front(v, x) == <<x>> \o v

\* Vec::push
Vec_push(v, x) == Append(v, x)

\* the closure of the n-th enqueue_broadcast call made from outside of the
\* handlers: that of the demo task of the example server, or the n-th of the
\* closures that the specification has fixed in probe
ExtClosure(n) ==
    IF probe # None /\ probe.kind = "closures" THEN probe.closures[n]
    ELSE StdinBroadcast(SCREEN1)

\* enqueue_broadcast: push(action), and the mutex guard is dropped
BroadcastPush(t) ==
    LET id == bc_hist.calls + 1
        f == IF t = DemoTask THEN ExtClosure(ext_calls) ELSE hold.broadcast.val
    IN  /\ pc[t] = "bc_push"
        /\ bc_queue' = Vec_push(bc_queue, [f |-> f, id |-> id])
        /\ bc_lock' = NoThread
        /\ bc_hist' = [bc_hist EXCEPT
                         !.calls = id,
                         !.pred = MapInsert(@, id,
                                    [before |-> bc_hist.at_call[t],
                                     ordered |-> bc_hist.at_call[t] # {}]),
                         !.in_call = MapInsert(@, t, id)]
        /\ pc' = [pc EXCEPT ![t] = "bc_try"]
        /\ UNCHANGED <<conns, next_connection_id, tx, notify, app, pool_lock,
                       tx_lock, rx_aborted, tx_aborted, rxl, txl, hold, written,
                       ext_calls, enq_log, listener, notes, probe>>

\* the history when the enqueue_broadcast call of thread t returns
Returned(t) ==
    [bc_hist EXCEPT !.returned = @ \cup ({bc_hist.in_call[t]} \cap DOMAIN bc_hist.pred),
                    !.at_call = MapRemove(@, t),
                    !.in_call = MapRemove(@, t)]

\* RwLock::write in the place of try_write: the caller waits for the holder
try_write_blocking(holder) == IF holder = NoThread THEN "ok" ELSE "wait"

\* a try_write that succeeds whoever holds the lock
try_write_always(holder) == "ok"

\* RwLock::try_write on a lock held by holder: "ok" or "would_block"
try_write(holder) == IF holder = NoThread THEN "ok" ELSE "would_block"

\* enqueue_broadcast: self.0.pool.try_write(); with the lock the caller goes
\* into do_maintenance, without it the call returns
BroadcastTry(t) ==
    LET got == try_write(pool_lock)
    IN  /\ pc[t] = "bc_try"
        /\ got \in {"ok", "would_block"}
        /\ IF got = "ok"
           THEN /\ pool_lock' = t
                /\ hold' = [HoldIdle EXCEPT !.ret = "sleep"]
                /\ pc' = [pc EXCEPT ![t] = "swap_lock"]
                /\ UNCHANGED bc_hist
           ELSE /\ pc' = [pc EXCEPT ![t] =
                            IF t = DemoTask THEN "sleep" ELSE "round"]
                /\ hold' = IF t = DemoTask THEN hold
                           ELSE [hold EXCEPT !.broadcast = None]
                /\ bc_hist' = Returned(t)
                /\ UNCHANGED pool_lock
        /\ UNCHANGED <<conns, next_connection_id, tx, notify, bc_queue, app,
                       tx_lock, bc_lock, rx_aborted, tx_aborted, rxl, txl,
                       written, ext_calls, enq_log, listener, notes, probe>>

(***************************************************************************)
(* Maintenance under the pool lock: Drop for ConnectionRefMut runs         *)
(* do_maintenance_on_conn and do_maintenance; enqueue_broadcast runs       *)
(* do_maintenance alone.                                                   *)
(***************************************************************************)
\* an iteration that leaves out connection 0
values_mut_but_first(pool_conns) == DOMAIN pool_conns \ {0}

\* the connections that pool.conns.values_mut() yields
values_mut(pool_conns) == DOMAIN pool_conns

\* a do_maintenance_on_conn that leaves every connection in the pool
MaintenanceOnConn_keep(t, conn_id, ctx) ==
    /\ hold' = [hold EXCEPT !.sweep = @ \ {conn_id}]
    /\ pc' = [pc EXCEPT ![t] = AfterCall(ctx)]
    /\ UNCHANGED <<rx_aborted, tx_aborted, conns>>

\* a do_maintenance_on_conn that takes every connection out of the pool
MaintenanceOnConn_any(t, conn_id, ctx) ==
    IF conn_id \in DOMAIN conns
    THEN /\ rx_aborted' = rx_aborted \cup {conn_id}
         /\ tx_aborted' = tx_aborted \cup {conn_id}
         /\ conns' = MapRemove(conns, conn_id)
         /\ hold' = [hold EXCEPT !.target = conn_id, !.ctx = ctx,
                                 !.sweep = @ \ {conn_id}]
         /\ pc' = [pc EXCEPT ![t] = "rm_lock"]
    ELSE /\ hold' = [hold EXCEPT !.sweep = @ \ {conn_id}]
         /\ pc' = [pc EXCEPT ![t] = AfterCall(ctx)]
         /\ UNCHANGED <<rx_aborted, tx_aborted, conns>>

\* do_maintenance_on_conn(pool, conn_id) up to self.tx.write(): a connection
\* in state Teardown has its jobs aborted and leaves the pool
MaintenanceOnConn(t, conn_id, ctx) ==
    IF conn_id \in DOMAIN conns /\ conns[conn_id].state = Teardown
    THEN /\ rx_aborted' = rx_aborted \cup {conn_id}
         /\ tx_aborted' = tx_aborted \cup {conn_id}
         /\ conns' = MapRemove(conns, conn_id)
         /\ hold' = [hold EXCEPT !.target = conn_id, !.ctx = ctx,
                                 !.sweep = @ \ {conn_id}]
         /\ pc' = [pc EXCEPT ![t] = "rm_lock"]
    ELSE /\ hold' = [hold EXCEPT !.sweep = @ \ {conn_id}]
         /\ pc' = [pc EXCEPT ![t] = AfterCall(ctx)]
         /\ UNCHANGED <<rx_aborted, tx_aborted, conns>>

\* Drop for ConnectionRefMut: do_maintenance_on_conn(guard, conn_id)
DropRef(t) ==
    /\ pc[t] = "drop"
    /\ MaintenanceOnConn(t, hold.conn_id, "drop")
    /\ UNCHANGED <<next_connection_id, tx, notify, bc_queue, app, pool_lock,
                   tx_lock, bc_lock, rxl, txl, written, ext_calls, enq_log,
                   bc_hist, listener, notes, probe>>

\* do_maintenance_on_conn: self.tx.write()
RemoveLock(t) ==
    /\ pc[t] = "rm_lock"
    /\ tx_lock = NoThread
    /\ tx_lock' = t
    /\ pc' = [pc EXCEPT ![t] = "rm"]
    /\ UNCHANGED <<conns, next_connection_id, tx, notify, bc_queue, app,
                   pool_lock, bc_lock, rx_aborted, tx_aborted, rxl, txl, hold,
                   written, ext_calls, enq_log, bc_hist,
                   listener, notes, probe>>

\* do_maintenance_on_conn: remove(&conn_id) on the tx map, and
\* app.notify(ConnectionClosed)
Remove(t) ==
    /\ pc[t] = "rm"
    /\ tx' = MapRemove(tx, hold.target)
    /\ tx_lock' = NoThread
    /\ notes' = [notes EXCEPT !.closed = @ + 1]
    /\ pc' = [pc EXCEPT ![t] = AfterCall(hold.ctx)]
    /\ UNCHANGED <<conns, next_connection_id, notify, bc_queue, app, pool_lock,
                   bc_lock, rx_aborted, tx_aborted, rxl, txl, hold, written,
                   ext_calls, enq_log, bc_hist, listener, probe>>

\* do_maintenance: self.bc_queue.lock()
SwapLock(t) ==
    /\ pc[t] = "swap_lock"
    /\ bc_lock = NoThread
    /\ bc_lock' = t
    /\ pc' = [pc EXCEPT ![t] = "swap"]
    /\ UNCHANGED <<conns, next_connection_id, tx, notify, bc_queue, app,
                   pool_lock, tx_lock, rx_aborted, tx_aborted, rxl, txl, hold,
                   written, ext_calls, enq_log, bc_hist,
                   listener, notes, probe>>

\* do_maintenance: the queue is swapped for an empty one; an empty result
\* ends the loop
Swap(t) ==
    /\ pc[t] = "swap"
    /\ bc_queue' = <<>>
    /\ bc_lock' = NoThread
    /\ IF bc_queue = <<>>
       THEN /\ hold' = [hold EXCEPT !.sweep = IF hold.there_were_broadcasts
                                              THEN DOMAIN conns ELSE {}]
            /\ pc' = [pc EXCEPT ![t] = "sweep"]
       ELSE /\ hold' = [hold EXCEPT !.there_were_broadcasts = TRUE,
                                    !.broadcasts = bc_queue,
                                    !.todo = values_mut(conns),
                                    !.hits = [c \in DOMAIN conns |-> 0]]
            /\ pc' = [pc EXCEPT ![t] = "apply"]
    /\ UNCHANGED <<conns, next_connection_id, tx, notify, app, pool_lock,
                   tx_lock, rx_aborted, tx_aborted, rxl, txl, written,
                   ext_calls, enq_log, bc_hist, listener, notes, probe>>

\* do_maintenance: broadcast(&mut conn_entry.conn) for the first broadcast
\* not yet done and the next connection of the iteration
ApplyBroadcastToConn(t) ==
    /\ pc[t] = "apply"
    /\ hold.todo # {}
    /\ \E c \in hold.todo :
         LET b == Head(hold.broadcasts)
             r == ApplyBroadcast(b.f, conns[c].state)
         IN  /\ conns' = [conns EXCEPT ![c].state = r.state]
             /\ hold' = [hold EXCEPT
                           !.todo = @ \ {c},
                           !.hits = [@ EXCEPT ![c] = @ + 1],
                           !.out = IF r.stdin # None
                                   THEN Some([kind |-> "stdin",
                                              bytes |-> r.stdin.val])
                                   ELSE IF r.message # None
                                   THEN Some([kind |-> "message",
                                              bytes |-> r.message.val])
                                   ELSE None,
                           !.target = c,
                           !.ctx = "apply"]
             /\ bc_hist' = [bc_hist EXCEPT !.started = @ \cup {b.id}]
             /\ pc' = [pc EXCEPT ![t] =
                         IF r.stdin # None \/ r.message # None
                         THEN "enq_lock" ELSE "apply"]
    /\ UNCHANGED <<next_connection_id, tx, notify, bc_queue, app, pool_lock,
                   tx_lock, bc_lock, rx_aborted, tx_aborted, rxl, txl, written,
                   ext_calls, enq_log, listener, notes, probe>>

\* the history when the loop over the connections has ended for broadcast b
Finished(b) ==
    [bc_hist EXCEPT
       !.returned = @ \ {b},
       !.started = @ \ {b},
       !.pred = [x \in DOMAIN @ \ {b} |-> [@[x] EXCEPT !.before = @ \ {b}]],
       !.at_call = [t \in DOMAIN @ |-> @[t] \ {b}]]

\* do_maintenance: the iteration over the connections has ended for the
\* first broadcast not yet done
BroadcastDone(t) ==
    LET b == Head(hold.broadcasts)
        rest == Tail(hold.broadcasts)
    IN  /\ pc[t] = "apply"
        /\ hold.todo = {}
        /\ bc_hist' = Finished(b.id)
        /\ hold' = [hold EXCEPT !.broadcasts = rest,
                                !.todo = IF rest = <<>> THEN {}
                                         ELSE values_mut(conns),
                                !.hits = [c \in DOMAIN conns |-> 0]]
        /\ pc' = [pc EXCEPT ![t] = IF rest = <<>> THEN "swap_lock" ELSE "apply"]
        /\ UNCHANGED <<conns, next_connection_id, tx, notify, bc_queue, app,
                       pool_lock, tx_lock, bc_lock, rx_aborted, tx_aborted,
                       rxl, txl, written, ext_calls, enq_log,
                       listener, notes, probe>>

\* do_maintenance: do_maintenance_on_conn for the next of all_conn_ids
Sweep(t) ==
    /\ pc[t] = "sweep"
    /\ hold.sweep # {}
    /\ \E c \in hold.sweep : MaintenanceOnConn(t, c, "sweep")
    /\ UNCHANGED <<next_connection_id, tx, notify, bc_queue, app, pool_lock,
                   tx_lock, bc_lock, rxl, txl, written, ext_calls, enq_log,
                   bc_hist, listener, notes, probe>>

\* the pool write guard is dropped
ReleasePool(t) ==
    /\ pc[t] = "sweep"
    /\ hold.sweep = {}
    /\ pool_lock' = NoThread
    /\ pc' = [pc EXCEPT ![t] = hold.ret]
    /\ hold' = HoldIdle
    /\ bc_hist' = IF t = DemoTask THEN Returned(t) ELSE bc_hist
    /\ UNCHANGED <<conns, next_connection_id, tx, notify, bc_queue, app,
                   tx_lock, bc_lock, rx_aborted, tx_aborted, rxl, txl, written,
                   ext_calls, enq_log, listener, notes, probe>>

(***************************************************************************)
(* spawn_transmitter: the transmitter job of connection c.                 *)
(***************************************************************************)
\* tx_notify.notified() completes and takes the permit
TxNotified(c) ==
    /\ pc[Transmitter(c)] = "notified"
    /\ c \notin tx_aborted
    /\ notify[c]
    /\ notify' = [notify EXCEPT ![c] = FALSE]
    /\ pc' = [pc EXCEPT ![Transmitter(c)] = "tx_acq"]
    /\ UNCHANGED <<conns, next_connection_id, tx, bc_queue, app, pool_lock,
                   tx_lock, bc_lock, rx_aborted, tx_aborted, rxl, txl, hold,
                   written, ext_calls, enq_log, bc_hist,
                   listener, notes, probe>>

\* dispatch.connection_mut(conn_id).alive() before swap_send_buffer
TxAcquire(c) ==
    /\ pc[Transmitter(c)] = "tx_acq"
    /\ pool_lock = NoThread
    /\ pool_lock' = Transmitter(c)
    /\ hold' = [HoldIdle EXCEPT !.conn_id = c, !.ret = "done"]
    /\ pc' = [pc EXCEPT ![Transmitter(c)] =
                IF c \in DOMAIN conns THEN "txswap_lock" ELSE "drop"]
    /\ UNCHANGED <<conns, next_connection_id, tx, notify, bc_queue, app,
                   tx_lock, bc_lock, rx_aborted, tx_aborted, rxl, txl, written,
                   ext_calls, enq_log, bc_hist, listener, notes, probe>>

\* swap_send_buffer: self.tx.write()
TxSwapLock(c) ==
    /\ pc[Transmitter(c)] = "txswap_lock"
    /\ tx_lock = NoThread
    /\ tx_lock' = Transmitter(c)
    /\ pc' = [pc EXCEPT ![Transmitter(c)] = "txswap"]
    /\ UNCHANGED <<conns, next_connection_id, tx, notify, bc_queue, app,
                   pool_lock, bc_lock, rx_aborted, tx_aborted, rxl, txl, hold,
                   written, ext_calls, enq_log, bc_hist,
                   listener, notes, probe>>

\* swap_send_buffer under the tx lock: the old buffer goes back, the next
\* one comes out
TxSwap(c) ==
    LET r == IF c \in DOMAIN tx THEN swap_send_buffer_bufs(tx[c].bufs, txl[c])
             ELSE [bufs |-> <<>>, result |-> None]
    IN  /\ pc[Transmitter(c)] = "txswap"
        /\ tx' = IF c \in DOMAIN tx THEN [tx EXCEPT ![c].bufs = r.bufs] ELSE tx
        /\ txl' = [txl EXCEPT ![c] = r.result]
        /\ tx_lock' = NoThread
        /\ hold' = [hold EXCEPT !.ret = IF r.result = None THEN "notified"
                                        ELSE "write"]
        /\ pc' = [pc EXCEPT ![Transmitter(c)] = "drop"]
        /\ UNCHANGED <<conns, next_connection_id, notify, bc_queue, app,
                       pool_lock, bc_lock, rx_aborted, tx_aborted, rxl, written,
                       ext_calls, enq_log, bc_hist, listener, notes, probe>>

\* writer.write_all(buf.filled()) completes
TxWrite(c) ==
    /\ pc[Transmitter(c)] = "write"
    /\ c \notin tx_aborted
    /\ written' = [written EXCEPT ![c] = @ \o txl[c].val]
    /\ pc' = [pc EXCEPT ![Transmitter(c)] = "tx_acq"]
    /\ UNCHANGED <<conns, next_connection_id, tx, notify, bc_queue, app,
                   pool_lock, tx_lock, bc_lock, rx_aborted, tx_aborted, rxl,
                   txl, hold, ext_calls, enq_log, bc_hist,
                   listener, notes, probe>>

\* the lengths at which a write_all that does not complete may stop
PartialLens(buf) == {0, Len(buf) - 1}

\* writer.write_all(buf.filled()) fails after a part of the buffer
TxWriteError(c) ==
    /\ pc[Transmitter(c)] = "write"
    /\ c \notin tx_aborted
    /\ \E n \in PartialLens(txl[c].val) :
         written' = [written EXCEPT ![c] = @ \o SubSeq(txl[c].val, 1, n)]
    /\ notes' = [notes EXCEPT !.io_errors[c] = @ + 1]
    /\ pc' = [pc EXCEPT ![Transmitter(c)] = "close_acq"]
    /\ UNCHANGED <<conns, next_connection_id, tx, notify, bc_queue, app,
                   pool_lock, tx_lock, bc_lock, rx_aborted, tx_aborted, rxl,
                   txl, hold, ext_calls, enq_log, bc_hist,
                   listener, probe>>

(***************************************************************************)
(* Abortable: a job whose abort handle was triggered ends at its next      *)
(* await.                                                                  *)
(***************************************************************************)
RxAborted(c) ==
    /\ pc[Receiver(c)] = "read"
    /\ c \in rx_aborted
    /\ pc' = [pc EXCEPT ![Receiver(c)] = "done"]
    /\ UNCHANGED <<conns, next_connection_id, tx, notify, bc_queue, app,
                   pool_lock, tx_lock, bc_lock, rx_aborted, tx_aborted, rxl,
                   txl, hold, written, ext_calls, enq_log, bc_hist,
                   listener, notes, probe>>

TxAborted(c) ==
    /\ pc[Transmitter(c)] \in {"notified", "write"}
    /\ c \in tx_aborted
    /\ IF pc[Transmitter(c)] = "write"
       THEN \E n \in PartialLens(txl[c].val) \cup {Len(txl[c].val)} :
              written' = [written EXCEPT ![c] = @ \o SubSeq(txl[c].val, 1, n)]
       ELSE UNCHANGED written
    /\ pc' = [pc EXCEPT ![Transmitter(c)] = "done"]
    /\ UNCHANGED <<conns, next_connection_id, tx, notify, bc_queue, app,
                   pool_lock, tx_lock, bc_lock, rx_aborted, tx_aborted, rxl,
                   txl, hold, ext_calls, enq_log, bc_hist,
                   listener, notes, probe>>

(***************************************************************************)
(* The specification.                                                      *)
(***************************************************************************)
\* what the clients of the model send in one read
\* the first HelloSplit bytes of a client-hello, and the rest of it
HelloHead == SubSeq(ClientHello_encode(SECRET_A), 1, HelloSplit)
HelloTail ==
    SubSeq(ClientHello_encode(SECRET_A), HelloSplit + 1,
           Len(ClientHello_encode(SECRET_A)))

\* what a read of the main specification yields: a client-hello, a
\* stdin-hello, a client-hello followed by a lifetime-end, or the first
\* bytes of a client-hello
Chunks ==
    { ClientHello_encode(SECRET_A),
      StdinHello_encode(STDIN_SECRET),
      ClientHello_encode(SECRET_A) \o LifetimeEnd_encode(CLIENT_AB),
      HelloHead }

\* what a read of the single-connection specification yields
ConnChunks ==
    { ClientHello_encode(SECRET_A),
      ClientHello_encode(WRONG_SECRET),
      StdinHello_encode(STDIN_SECRET),
      StdoutHello_encode(STDOUT_SECRET),
      StdoutHello_encode(STDOUT_SECRET) \o <<"h","i">>,
      Want_encode(<<"c","o","r","e","1">>),
      LifetimeEnd_encode(CLIENT_AB),
      HelloHead,
      HelloTail,
      <<"}","{">> }

\* a step of the server with MaxConns connections
Next ==
    \/ ListenerStart
    \/ AcceptLock(MaxConns)
    \/ AcceptInsert
    \/ AcceptTxLock
    \/ AcceptTxInsert
    \/ DemoCall(MaxExtBroadcasts)
    \/ \E c \in ConnIds : RxRead(c, MaxReads, Chunks)
    \/ \E c \in ConnIds : RxEof(c)
    \/ \E c \in ConnIds : RxError(c)
    \/ \E c \in ConnIds : RxClosed(c)
    \/ \E c \in ConnIds : HandleIncoming(c)
    \/ \E c \in ConnIds : TxNotified(c)
    \/ \E c \in ConnIds : TxAcquire(c)
    \/ \E c \in ConnIds : TxSwapLock(c)
    \/ \E c \in ConnIds : TxSwap(c)
    \/ \E c \in ConnIds : TxWrite(c)
    \/ \E c \in ConnIds : TxWriteError(c)
    \/ \E c \in ConnIds : RxAborted(c)
    \/ \E c \in ConnIds : TxAborted(c)
    \/ \E t \in Threads : CloseAcquire(t)
    \/ \E t \in Threads : EnqueueLock(t)
    \/ \E t \in Threads : Enqueue(t)
    \/ \E t \in Threads : BroadcastLock(t)
    \/ \E t \in Threads : BroadcastPush(t)
    \/ \E t \in Threads : BroadcastTry(t)
    \/ \E t \in Threads : DropRef(t)
    \/ \E t \in Threads : RemoveLock(t)
    \/ \E t \in Threads : Remove(t)
    \/ \E t \in Threads : SwapLock(t)
    \/ \E t \in Threads : Swap(t)
    \/ \E t \in Threads : ApplyBroadcastToConn(t)
    \/ \E t \in Threads : BroadcastDone(t)
    \/ \E t \in Threads : Sweep(t)
    \/ \E t \in Threads : ReleasePool(t)

Spec == Init /\ [][Next]_vars

\* a step of the server with one connection and a wider choice of inputs
NextConn ==
    \/ ListenerStart
    \/ AcceptLock(ConnMaxConns)
    \/ AcceptInsert
    \/ AcceptTxLock
    \/ AcceptTxInsert
    \/ DemoCall(ConnMaxExtBroadcasts)
    \/ \E c \in ConnIds : RxRead(c, ConnMaxReads, ConnChunks)
    \/ \E c \in ConnIds : RxEof(c)
    \/ \E c \in ConnIds : RxError(c)
    \/ \E c \in ConnIds : RxClosed(c)
    \/ \E c \in ConnIds : HandleIncoming(c)
    \/ \E c \in ConnIds : TxNotified(c)
    \/ \E c \in ConnIds : TxAcquire(c)
    \/ \E c \in ConnIds : TxSwapLock(c)
    \/ \E c \in ConnIds : TxSwap(c)
    \/ \E c \in ConnIds : TxWrite(c)
    \/ \E c \in ConnIds : TxWriteError(c)
    \/ \E c \in ConnIds : RxAborted(c)
    \/ \E c \in ConnIds : TxAborted(c)
    \/ \E t \in Threads : CloseAcquire(t)
    \/ \E t \in Threads : EnqueueLock(t)
    \/ \E t \in Threads : Enqueue(t)
    \/ \E t \in Threads : BroadcastLock(t)
    \/ \E t \in Threads : BroadcastPush(t)
    \/ \E t \in Threads : BroadcastTry(t)
    \/ \E t \in Threads : DropRef(t)
    \/ \E t \in Threads : RemoveLock(t)
    \/ \E t \in Threads : Remove(t)
    \/ \E t \in Threads : SwapLock(t)
    \/ \E t \in Threads : Swap(t)
    \/ \E t \in Threads : ApplyBroadcastToConn(t)
    \/ \E t \in Threads : BroadcastDone(t)
    \/ \E t \in Threads : Sweep(t)
    \/ \E t \in Threads : ReleasePool(t)

SpecConn == Init /\ [][NextConn]_vars

\* what the clients of a tree of two send: client a says hello and makes
\* client ab, client ab says hello with the secret that was made for it,
\* and client a ends the lifetime of client ab
TreeChunks ==
    { ClientHello_encode(SECRET_A) \o ClientMake_encode(ClientIdentity_new(CLIENT_AB)),
      ClientHello_encode(generate_secret(1)),
      LifetimeEnd_encode(CLIENT_AB) }

\* a step of the server with two connections of a client and its child,
\* neither of which closes its socket
NextTree ==
    \/ ListenerStart
    \/ AcceptLock(MaxConns)
    \/ AcceptInsert
    \/ AcceptTxLock
    \/ AcceptTxInsert
    \/ \E c \in ConnIds : RxRead(c, TreeMaxReads, TreeChunks)
    \/ \E c \in ConnIds : HandleIncoming(c)
    \/ \E c \in ConnIds : TxNotified(c)
    \/ \E c \in ConnIds : TxAcquire(c)
    \/ \E c \in ConnIds : TxSwapLock(c)
    \/ \E c \in ConnIds : TxSwap(c)
    \/ \E c \in ConnIds : TxWrite(c)
    \/ \E c \in ConnIds : RxAborted(c)
    \/ \E c \in ConnIds : TxAborted(c)
    \/ \E t \in Threads : EnqueueLock(t)
    \/ \E t \in Threads : Enqueue(t)
    \/ \E t \in Threads : BroadcastLock(t)
    \/ \E t \in Threads : BroadcastPush(t)
    \/ \E t \in Threads : BroadcastTry(t)
    \/ \E t \in Threads : DropRef(t)
    \/ \E t \in Threads : RemoveLock(t)
    \/ \E t \in Threads : Remove(t)
    \/ \E t \in Threads : SwapLock(t)
    \/ \E t \in Threads : Swap(t)
    \/ \E t \in Threads : ApplyBroadcastToConn(t)
    \/ \E t \in Threads : BroadcastDone(t)
    \/ \E t \in Threads : Sweep(t)
    \/ \E t \in Threads : ReleasePool(t)

SpecTree == Init /\ [][NextTree]_vars

(***************************************************************************)
(* Connection::handle_incoming applied alone: a connection in a given      *)
(* state with a given receive buffer and Application, no job running.      *)
(***************************************************************************)
CLIENT_ABC == <<"a","b","c">>
CLIENT_B == <<"b">>
CLIENT_AC == <<"a","c">>

\* the Application after register_client for each id of ids, in order
RECURSIVE AppWith(_)
AppWith(ids) ==
    IF ids = <<>> THEN AppInit
    ELSE register_client(AppWith(SubSeq(ids, 1, Len(ids) - 1)),
                         ClientIdentity_new(ids[Len(ids)])).app

\* the Applications that a client-make can meet
ProbeApps ==
    { AppInit, AppWith(<<CLIENT_AB>>), AppWith(<<CLIENT_ABC>>),
      AppWith(<<CLIENT_B>>) }

\* core1.client-make requests
MakeBufs ==
    { ClientMake_encode(ClientIdentity_new(id)) :
        id \in {CLIENT_A, CLIENT_AB, CLIENT_ABC, CLIENT_B, CLIENT_AC} }

\* receive buffers that do not start with a message: garbage before a
\* message, garbage alone, an opener inside a message, and messages that
\* have not been received to their end
GarbageBufs ==
    { <<"g","a","r","b","a","g","e","{","1","|","4",":","w","a","n","t",",">>,
      <<"}","{">>, <<"x","x">>, <<"{","x">>,
      <<"{","{","1","|","4",":","n","o","p","e",",","}">>,
      <<"x","{","y","{","2","|","4",":","w","a","n","t",",","5",":","c","o","r","e","1",",","}">>,
      <<"{","1","|","4",":","w","a","n","t",",">>, HelloHead }

\* messages that the handlers of a Msgio connection answer with an error:
\* known types with arguments that do not decode, unknown types of the
\* supported module and of another module, and an eternal type
ErrorBufs ==
    { FormatMessage(MT_WANT, <<>>),
      FormatMessage(MT_WANT, <<<<"!">>>>),
      FormatMessage(CLIENT_MAKE, <<CLIENT_AB>>),
      FormatMessage(LIFETIME_END, <<<<"a","!">>>>),
      FormatMessage(<<"c","o","r","e","1",".","x","y">>, <<>>),
      FormatMessage(<<"f","o","o","2",".","x","y">>, <<<<"a","b">>>>),
      FormatMessage(MT_INIT, <<>>) }

\* bytes that are no message at all, and a hello sent once more
StreamBufs ==
    { <<"x">>, <<"l","s","\n">>, StdinHello_encode(STDIN_SECRET),
      StdoutHello_encode(STDOUT_SECRET) }

\* the identity of a client ab with screens for stdin and stdout
IDENTITY_AB_SCREENS ==
    [id |-> CLIENT_AB, stdin |-> Some(SCREEN1), stdout |-> Some(SCREEN1),
     stderr |-> None]

\* the Applications that a client-hello can meet: the initial one, one with
\* the client ab registered with screens, and one where client a has said
\* hello before
HelloApps ==
    { AppInit, register_client(AppInit, IDENTITY_AB_SCREENS).app,
      authorize_client(AppInit, SECRET_A).app }

\* client-hellos: with the secret of client a, with the secret made for the
\* second client, with a wrong secret, followed by a want, without a secret
\* and with two
HelloBufs ==
    { ClientHello_encode(SECRET_A), ClientHello_encode(generate_secret(1)),
      ClientHello_encode(WRONG_SECRET),
      ClientHello_encode(SECRET_A) \o Want_encode(<<"c","o","r","e","1">>),
      FormatMessage(CLIENT_HELLO, <<>>),
      FormatMessage(CLIENT_HELLO, <<SECRET_A, SECRET_A>>) }

\* well-formed wants: of the supported module, of modules that no handler
\* supports, and two of them in one buffer
WantBufs ==
    { Want_encode(<<"c","o","r","e","1">>), Want_encode(<<"f","o","o","9">>),
      Want_encode(<<"c","o","r","e","2">>),
      Want_encode(<<"p","o","s","i","x","1">>),
      Want_encode(<<"c","o","r","e","1">>) \o Want_encode(<<"f","o","o","9">>) }

\* every receive buffer of up to three bytes over a small alphabet
ShortAlphabet == {"{", "}", "x", "1"}

ShortBufs ==
    {<<>>} \cup {<<a>> : a \in ShortAlphabet}
    \cup {<<a, b>> : a, b \in ShortAlphabet}
    \cup {<<a, b, c>> : a, b, c \in ShortAlphabet}

\* the probes: handle_incoming on a Msgio connection or a connection in
\* Handshake, and the baseline reply to a handler result
ProbeInputs ==
    [kind : {"round"},
     state : {Handshake, Msgio(ClientIdentity_new(CLIENT_A)), Stdin(SCREEN1),
              Stdout(SCREEN1), Teardown},
     buf : ShortBufs, app : {AppInit}, result : {"none"}, rounds : {0},
     out : {None}]
    \cup
    [kind : {"round"}, state : {Teardown}, buf : GarbageBufs \cup ErrorBufs,
     app : {AppInit}, result : {"none"}, rounds : {0}, out : {None}]
    \cup
    [kind : {"round"},
     state : {Msgio(ClientIdentity_new(CLIENT_A)),
              Msgio(ClientIdentity_new(CLIENT_AB))},
     buf : MakeBufs, app : ProbeApps, result : {"none"}, rounds : {0},
     out : {None}]
    \cup
    [kind : {"round"},
     state : {Handshake, Msgio(ClientIdentity_new(CLIENT_A))},
     buf : GarbageBufs \cup ErrorBufs, app : {AppInit}, result : {"none"},
     rounds : {0}, out : {None}]
    \cup
    [kind : {"round"},
     state : {Stdin(SCREEN1), Stdout(SCREEN1)},
     buf : GarbageBufs \cup ErrorBufs \cup StreamBufs, app : {AppInit},
     result : {"none"}, rounds : {0}, out : {None}]
    \cup
    [kind : {"round"}, state : {Handshake}, buf : HelloBufs, app : HelloApps,
     result : {"none"}, rounds : {0}, out : {None}]
    \cup
    [kind : {"round"}, state : {Msgio(ClientIdentity_new(CLIENT_A))},
     buf : WantBufs, app : {AppInit}, result : {"none"}, rounds : {0},
     out : {None}]
    \cup
    [kind : {"baseline"},
     state : {Msgio(ClientIdentity_new(CLIENT_A))},
     buf : ErrorBufs, app : {AppInit},
     result : {"InvalidMessage", "UnknownMessageType"}, rounds : {0},
     out : {None}]

InitFn == InitDispatch /\ probe \in ProbeInputs

\* conn.handle_incoming(&mut buf): one round, and the rounds of its tail
\* calls
ProbeRound ==
    /\ probe.kind = "round"
    /\ IF probe.out = None
       THEN probe' = [probe EXCEPT
                        !.out = Some(handle_incoming(probe.state, probe.buf,
                                                     probe.app)),
                        !.rounds = 1]
       ELSE /\ probe.out.val.again
            /\ probe' = [probe EXCEPT
                           !.state = probe.out.val.state,
                           !.buf = probe.out.val.buf,
                           !.app = probe.out.val.app,
                           !.out = Some(handle_incoming(probe.out.val.state,
                                                        probe.out.val.buf,
                                                        probe.out.val.app)),
                           !.rounds = @ + 1]
    /\ UNCHANGED <<conns, next_connection_id, tx, notify, bc_queue, app,
                   pool_lock, tx_lock, bc_lock, pc, rx_aborted, tx_aborted,
                   rxl, txl, hold, written, ext_calls, enq_log, bc_hist,
                   listener, notes>>

\* the match on (handle_result, handler) for a message handler that has
\* returned probe.result for the message of the buffer
ProbeBaseline ==
    /\ probe.kind = "baseline"
    /\ probe.out = None
    /\ Message_parse(probe.buf).ok
    /\ probe' = [probe EXCEPT
                   !.out = Some(baseline_reply(
                                  Message_parse(probe.buf).val,
                                  Effect(probe.state, probe.app, None, None,
                                         probe.result),
                                  FALSE)),
                   !.rounds = 1]
    /\ UNCHANGED <<conns, next_connection_id, tx, notify, bc_queue, app,
                   pool_lock, tx_lock, bc_lock, pc, rx_aborted, tx_aborted,
                   rxl, txl, hold, written, ext_calls, enq_log, bc_hist,
                   listener, notes>>

NextFn == ProbeRound \/ ProbeBaseline

SpecFn == InitFn /\ [][NextFn]_vars

(***************************************************************************)
(* The codec applied alone: the formatter followed by the parser, the      *)
(* parser on the prefixes of encoded messages and on numerals with         *)
(* leading zeroes, and the decoders of the integer types.                  *)
(***************************************************************************)
\* message types, and one type name that the formatter takes and that is
\* no message type
CodecTypes ==
    { MT_WANT, MT_HAVE, MT_NOPE, MT_INIT, CLIENT_HELLO,
      <<"s","i","g","1",".","c","l","a","i","m">>,
      <<"c","o","r","e","1",".","s","e","t">>,
      <<"s","i","g",".","c","l","a","i","m">> }

\* argument bytestrings: empty, with the bytes of the framing, not UTF-8,
\* and of ten bytes, whose size takes two digits
CodecArgs ==
    { <<>>, <<"x">>, <<"}","{">>, <<"1",":","x",",">>,
      <<"\\xC0","\\xB1">>, <<"0","1","2","3","4","5","6","7","8","9">>,
      <<",">> }

\* argument lists: up to two arguments, and nine arguments, with which the
\* count of the message takes two digits
CodecArgLists ==
    {<<>>} \cup {<<a>> : a \in CodecArgs}
    \cup {<<a, b>> : a \in CodecArgs, b \in CodecArgs}
    \cup {[i \in 1..9 |-> <<DigitChar(i)>>]}

FormatInputs ==
    [kind : {"format"}, type : CodecTypes, args : CodecArgLists,
     bytes : {<<>>}, out : {None}]

\* encoded messages, and one buffer that holds more than a message
CodecWholes ==
    { <<"{","4","|","4",":","w","a","n","t",",","4",":","c","o","r","e",",","1",":","1",",","1",":","2",",","}">>,
      <<"{","1","|","1","0",":","s","i","g","1",".","c","l","a","i","m",",","}">>,
      <<"{","2","|","4",":","w","a","n","t",",","0",":",",","}">>,
      FormatMessage(<<"c","o","r","e","1",".","s","e","t">>,
                    <<<<"e","x","a","m","p","l","e",".","b","y","t","e","s">>,
                      <<"0","1","2","3","4","5","6","7","8","9">>>>),
      FormatMessage(MT_NOPE, [i \in 1..9 |-> <<DigitChar(i)>>]),
      ClientHello_encode(SECRET_A) \o Want_encode(<<"c","o","r","e","1">>) }

PrefixInputs ==
    UNION { [kind : {"prefix"}, whole : {w}, cut : 0..Len(w), out : {None}] :
              w \in CodecWholes }

\* the bytes in front of a numeral, numerals with leading zeroes, and the
\* bytes behind a numeral
ZeroesBefore ==
    { <<"{">>, <<"{","1","|">>, <<"{","2","|","4",":","w","a","n","t",",">>,
      <<"{","3","|","4",":","w","a","n","t",",","5",":","c","o","r","e","1",",">>, <<"{","1">>,
      <<"{","1","|","4",":","w","a","n","t",",">> }

ZeroesNumerals ==
    { <<"0","1">>, <<"0","1","0">>, <<"0","0">>, <<"0","0","7">>,
      <<"0">> \o USIZE_MAX_STR \o <<"9">> }

ZeroesAfter ==
    { <<>>, <<"|","1","0",":","s","i","g","1",".","c","l","a","i","m",",","}">>, <<":","s","i","g","1",".","c","l","a","i","m",",","}">>,
      <<":","x",",","}">>, <<"}">> }

ZeroesInputs ==
    [kind : {"zeroes"}, before : ZeroesBefore, numeral : ZeroesNumerals,
     after : ZeroesAfter, out : {None}]

\* arguments given to the decoders of the integer types
IntegerArgs ==
    { <<>>, <<"0">>, <<"7">>, <<"4","2">>, <<"0","4","2">>,
      <<"0","0","4","2">>, <<" ","4","2">>, <<"4","2"," ">>,
      <<"u","n","k","n","o","w","n">>, <<"\\xC0","\\xB1">>,
      <<"+","4","2">>, <<"-","4","2">>, <<"+","0">>, <<"-","0">>,
      <<"-","0","4","2">>, <<"+","0","4","2">>, <<"+">>, <<"-">>,
      <<"+","-","1">>, <<"1","2","7">>, <<"1","2","8">>,
      <<"-","1","2","8">>, <<"-","1","2","9">>, <<"2","5","5">>,
      <<"2","5","6">>, <<"3","2","7","6","7">>, <<"-","3","2","7","6","8">>,
      <<"6","5","5","3","5">>, <<"6","5","5","3","6">>,
      <<"4","2","9","4","9","6","7","3","3","8">> }

\* values given to the encoders of the integer types: every value of u8 and
\* i8, and of u16 and i16 the least and greatest values and the values
\* where the number of digits changes
EncodeValues(ty) ==
    IF ty \in {"u8", "i8"} THEN min_value(ty)..max_value(ty)
    ELSE { x \in { min_value(ty), min_value(ty) + 1, -10000, -9999, -1000,
                   -999, -100, -99, -42, -10, -9, -1, 0, 1, 9, 10, 42, 99,
                   100, 999, 1000, 9999, 10000, max_value(ty) - 1,
                   max_value(ty) } :
             x >= min_value(ty) /\ x <= max_value(ty) }

EncodeInputs ==
    UNION { [kind : {"encode"}, ty : {ty}, val : EncodeValues(ty),
             out : {None}] : ty \in IntTypes }

\* characters of identifiers and of what is none: a lower-case and an
\* upper-case letter, the underscore, the dash, the digits 0 and 1, the dot
\* and the space
IdentChars == {"a", "Z", "_", "-", "0", "1", ".", " "}

\* every string of up to three of these characters, and the strings of the
\* tests of the parsers
IdentStrings ==
    {<<>>} \cup {<<a>> : a \in IdentChars}
    \cup {<<a, b>> : a \in IdentChars, b \in IdentChars}
    \cup {<<a, b, c>> : a \in IdentChars, b \in IdentChars, c \in IdentChars}
    \cup
    { <<"f","o","o">>,
      <<"f","o","o","_","f","o","o">>,
      <<"f","o","o","-","f","o","o">>,
      <<"_","f","o","o">>,
      <<"_","f","o","o","-","f","o","o">>,
      <<"-","f","o","o">>,
      <<"-","f","o","o","_","f","o","o">>,
      <<"f","0","o">>,
      <<"f","0","o",".","b","a","r">>,
      <<"f","o","=","o">>,
      <<"w","h","a","t"," ","i","s"," ","t","h","i","s">>,
      <<"f","o","o","1">>,
      <<"f","o","o","_","f","o","o","2","3">>,
      <<"_","f","o","o","-","f","o","o","6","0","7">>,
      <<"f","o","o","0">>,
      <<"f","o","o","0","1">>,
      <<"c","o","r","e","1",".","s","e","t">>,
      <<"f","o","o","6","5","5","3","6">> }

IdentInputs == [kind : {"ident"}, input : IdentStrings, out : {None}]

\* numbers given to get_size_for_number: the small ones, the ones around
\* the powers of 61 and of 2, and the greatest ones
SuffixNumbers ==
    {U32(n) : n \in 0..250}
    \cup {U32(n) : n \in {3658, 3659, 3660, 3719, 3720, 65534, 65535, 65536,
                          226979, 226980, 2147483646, 2147483647}}
    \cup {[hi |-> 32768, lo |-> 0], [hi |-> Half - 1, lo |-> Half - 2],
          U32_MAX}

NumberInputs ==
    [kind : {"number"}, num : SuffixNumbers, overflow_checks : BOOLEAN,
     out : {None}]

\* the numbers of the suffixes that are encoded: the ones of the tests
SmallNumbers == {U32(n) : n \in {0, 1, 59, 60, 61, 120, 121, 122}}

Suffixes ==
    {Local(i) : i \in SmallNumbers} \cup {Job(i) : i \in SmallNumbers}
    \cup {Child(i, j) : i \in SmallNumbers, j \in SmallNumbers}
    \cup {Local(U32_MAX), Job(U32_MAX)}

SuffixInputs ==
    [kind : {"suffix"}, suffix : Suffixes, overflow_checks : BOOLEAN,
     out : {None}]

DecodeInputs ==
    [kind : {"decode"}, ty : IntTypes, arg : IntegerArgs, out : {None}]

InitCodec ==
    /\ InitDispatch
    /\ \/ probe \in FormatInputs
       \/ probe \in PrefixInputs
       \/ probe \in ZeroesInputs
       \/ probe \in DecodeInputs
       \/ probe \in EncodeInputs
       \/ probe \in IdentInputs
       \/ probe \in NumberInputs
       \/ probe \in SuffixInputs

CodecUnchanged ==
    UNCHANGED <<conns, next_connection_id, tx, notify, bc_queue, app,
                pool_lock, tx_lock, bc_lock, pc, rx_aborted, tx_aborted,
                rxl, txl, hold, written, ext_calls, enq_log, bc_hist,
                listener, notes>>

\* MessageFormatter::new, add_argument for every argument and finalize,
\* and then Message::parse on the bytes written
CodecFormat ==
    /\ probe.kind = "format"
    /\ probe.out = None
    /\ probe' = [probe EXCEPT
                   !.bytes = FormatMessage(probe.type, probe.args),
                   !.out = Some(Message_parse(
                                  FormatMessage(probe.type, probe.args)))]
    /\ CodecUnchanged

\* Message::parse on the first bytes of a buffer
CodecPrefix ==
    /\ probe.kind = "prefix"
    /\ probe.out = None
    /\ probe' = [probe EXCEPT
                   !.out = Some(Message_parse(
                                  SubSeq(probe.whole, 1, probe.cut)))]
    /\ CodecUnchanged

\* Message::parse on a buffer with a numeral
CodecZeroes ==
    /\ probe.kind = "zeroes"
    /\ probe.out = None
    /\ probe' = [probe EXCEPT
                   !.out = Some(Message_parse(probe.before \o probe.numeral
                                              \o probe.after))]
    /\ CodecUnchanged

\* <integer>::decode_argument
CodecDecode ==
    /\ probe.kind = "decode"
    /\ probe.out = None
    /\ probe' = [probe EXCEPT
                   !.out = Some(decode_integer(probe.ty, probe.arg))]
    /\ CodecUnchanged

\* get_size, encode into a buffer of that size (encode_to_vector), and
\* decode_argument on the bytes written
CodecEncode ==
    /\ probe.kind = "encode"
    /\ probe.out = None
    /\ probe' = [probe EXCEPT
                   !.out = Some([size |-> integer_get_size(probe.val),
                                 written |-> encode_to_vector(probe.val),
                                 decoded |-> decode_integer(
                                     probe.ty,
                                     encode_to_vector(probe.val).buf)])]
    /\ CodecUnchanged

\* Identifier::parse
CodecIdent ==
    /\ probe.kind = "ident"
    /\ probe.out = None
    /\ probe' = [probe EXCEPT !.out = Some(Identifier_parse(probe.input))]
    /\ CodecUnchanged

\* get_size_for_number
CodecNumber ==
    /\ probe.kind = "number"
    /\ probe.out = None
    /\ probe' = [probe EXCEPT
                   !.out = Some(get_size_for_number(probe.num,
                                                    probe.overflow_checks))]
    /\ CodecUnchanged

\* ClientIDSuffix::get_size, and ClientIDSuffix::encode on a buffer of that
\* size
CodecSuffix ==
    LET encoded(size) ==
            IF ~size.ok THEN [size |-> size, bytes |-> size]
            ELSE [size |-> size,
                  bytes |-> ClientIDSuffix_encode(probe.suffix, size.val,
                                                  probe.overflow_checks)]
    IN  /\ probe.kind = "suffix"
        /\ probe.out = None
        /\ probe' = [probe EXCEPT
                       !.out = Some(encoded(ClientIDSuffix_get_size(
                                      probe.suffix, probe.overflow_checks)))]
        /\ CodecUnchanged

NextCodec ==
    \/ CodecNumber
    \/ CodecSuffix
    \/ CodecFormat
    \/ CodecPrefix
    \/ CodecZeroes
    \/ CodecDecode
    \/ CodecEncode
    \/ CodecIdent

SpecCodec == InitCodec /\ [][NextCodec]_vars

(***************************************************************************)
(* The want/have handler alone: one connection with its tracker handles a  *)
(* sequence of want messages; probe keeps the tracker and the messages     *)
(* handled with their replies.                                             *)
(***************************************************************************)
VersionArgs == {<<"1">>, <<"2">>, <<"3">>}

VersionArgLists ==
    {<<a>> : a \in VersionArgs} \cup {<<a, b>> : a, b \in VersionArgs}

WantArguments ==
    {<<m>> \o vs : m \in {MODULE_TEST, MODULE_CORE}, vs \in VersionArgLists}
    \cup {<<MODULE_TEST, <<"+","2">> >>,
          <<MODULE_TEST, <<"0">> >>,
          <<MODULE_TEST>>,
          <<<<"f","o","o">>, <<"1">> >>,
          <<<<"f","o","o",".","b","a","r">>, <<"1">> >>}

InitWant ==
    /\ InitDispatch
    /\ probe = [kind |-> "wants", agreed_modules |-> Tracker_new,
                log |-> <<>>, panicked |-> FALSE]

\* TestConnection::handle_message for a want message: Handler::handle passes
\* it to handle_want; a panic ends the sequence
HandleWant ==
    LET handled(arguments, result) ==
            probe' = [probe EXCEPT
                        !.agreed_modules = result.agreed_modules,
                        !.panicked = result.panicked,
                        !.log = Append(@, [arguments |-> arguments,
                                           reply |-> result.reply])]
    IN  /\ probe.kind = "wants"
        /\ ~probe.panicked
        /\ Len(probe.log) < MaxWants
        /\ \E arguments \in WantArguments :
               handled(arguments, handle_want(arguments, probe.agreed_modules))
        /\ CodecUnchanged

NextWant == HandleWant

SpecWant == InitWant /\ [][NextWant]_vars

(***************************************************************************)
(* The enqueue operations called on connections in any state: a task of    *)
(* the application passes closures to enqueue_broadcast that call          *)
(* enqueue_stdin or enqueue_message on every connection without looking at *)
(* its state, or that end the lifetime of client a.                        *)
(***************************************************************************)
\* an input of more bytes than one SendBuffer holds
Paste == [i \in 1..(SendBufferCap + PasteExcess) |-> DigitChar(i % 10)]

EnqClosures ==
    { EnqueueStdinBroadcast(Paste),
      EnqueueStdinBroadcast(<<"l","s","\n">>),
      EnqueueMessageBroadcast(Have_NotThisModule_encode(<<"f","o","o","9">>)),
      LifetimeEndBroadcast(CLIENT_A) }

\* the sequences of closures that the task passes, one per call
EnqPlans == UNION { [1..n -> EnqClosures] : n \in 1..MaxPlan }

\* what the client of this specification sends: one of the three hellos
EnqChunks ==
    { ClientHello_encode(SECRET_A), StdinHello_encode(STDIN_SECRET),
      StdoutHello_encode(STDOUT_SECRET) }

InitEnqueue ==
    /\ InitDispatch
    /\ probe \in [kind : {"closures"}, closures : EnqPlans]

NextEnqueue ==
    \/ ListenerStart
    \/ AcceptLock(ConnMaxConns)
    \/ AcceptInsert
    \/ AcceptTxLock
    \/ AcceptTxInsert
    \/ DemoCall(Len(probe.closures))
    \/ \E c \in ConnIds : RxRead(c, EnqMaxReads, EnqChunks)
    \/ \E c \in ConnIds : HandleIncoming(c)
    \/ \E c \in ConnIds : TxNotified(c)
    \/ \E c \in ConnIds : TxAcquire(c)
    \/ \E c \in ConnIds : TxSwapLock(c)
    \/ \E c \in ConnIds : TxSwap(c)
    \/ \E c \in ConnIds : TxWrite(c)
    \/ \E c \in ConnIds : RxAborted(c)
    \/ \E c \in ConnIds : TxAborted(c)
    \/ \E t \in Threads : EnqueueLock(t)
    \/ \E t \in Threads : Enqueue(t)
    \/ \E t \in Threads : BroadcastLock(t)
    \/ \E t \in Threads : BroadcastPush(t)
    \/ \E t \in Threads : BroadcastTry(t)
    \/ \E t \in Threads : DropRef(t)
    \/ \E t \in Threads : RemoveLock(t)
    \/ \E t \in Threads : Remove(t)
    \/ \E t \in Threads : SwapLock(t)
    \/ \E t \in Threads : Swap(t)
    \/ \E t \in Threads : ApplyBroadcastToConn(t)
    \/ \E t \in Threads : BroadcastDone(t)
    \/ \E t \in Threads : Sweep(t)
    \/ \E t \in Threads : ReleasePool(t)

SpecEnqueue == InitEnqueue /\ [][NextEnqueue]_vars

\* a step of the server with one client and a caller of shutdown(), but
\* for the rounds of handle_incoming
ShutdownSteps ==
    \/ ListenerStart
    \/ Shutdown(MaxShutdowns)
    \/ AcceptAborted
    \/ StopLock
    \/ StopAbortAll
    \/ AcceptLock(ConnMaxConns)
    \/ AcceptInsert
    \/ AcceptTxLock
    \/ AcceptTxInsert
    \/ \E c \in ConnIds : RxRead(c, MaxReads, {ClientHello_encode(SECRET_A)})
    \/ \E c \in ConnIds : RxClosed(c)
    \/ \E c \in ConnIds : TxNotified(c)
    \/ \E c \in ConnIds : TxAcquire(c)
    \/ \E c \in ConnIds : TxSwapLock(c)
    \/ \E c \in ConnIds : TxSwap(c)
    \/ \E c \in ConnIds : TxWrite(c)
    \/ \E c \in ConnIds : RxAborted(c)
    \/ \E c \in ConnIds : TxAborted(c)
    \/ \E t \in Threads : CloseAcquire(t)
    \/ \E t \in Threads : EnqueueLock(t)
    \/ \E t \in Threads : Enqueue(t)
    \/ \E t \in Threads : DropRef(t)
    \/ \E t \in Threads : RemoveLock(t)
    \/ \E t \in Threads : Remove(t)
    \/ \E t \in Threads : SwapLock(t)
    \/ \E t \in Threads : Swap(t)
    \/ \E t \in Threads : ReleasePool(t)

NextShutdown ==
    \/ ShutdownSteps
    \/ \E c \in ConnIds : HandleIncoming(c)

\* the runtime goes on polling the tasks that can make progress, and a
\* call of handle_incoming, which waits for nothing, goes on to its end
SpecShutdown ==
    /\ Init
    /\ [][NextShutdown]_vars
    /\ WF_vars(ShutdownSteps)
    /\ \A c \in ConnIds : []<>(pc[Receiver(c)] # "round")

\* what a read of the specification of the transmitter wake-ups yields
WakeChunks ==
    { ClientHello_encode(SECRET_A),
      Want_encode(<<"c","o","r","e","1">>) }

\* a step of the server with one client whose socket stays open and whose
\* writes complete, but for the rounds of handle_incoming
WakeSteps ==
    \/ ListenerStart
    \/ AcceptLock(ConnMaxConns)
    \/ AcceptInsert
    \/ AcceptTxLock
    \/ AcceptTxInsert
    \/ \E c \in ConnIds : RxRead(c, ConnMaxReads, WakeChunks)
    \/ \E c \in ConnIds : TxNotified(c)
    \/ \E c \in ConnIds : TxAcquire(c)
    \/ \E c \in ConnIds : TxSwapLock(c)
    \/ \E c \in ConnIds : TxSwap(c)
    \/ \E c \in ConnIds : TxWrite(c)
    \/ \E c \in ConnIds : RxAborted(c)
    \/ \E c \in ConnIds : TxAborted(c)
    \/ \E t \in Threads : EnqueueLock(t)
    \/ \E t \in Threads : Enqueue(t)
    \/ \E t \in Threads : DropRef(t)
    \/ \E t \in Threads : RemoveLock(t)
    \/ \E t \in Threads : Remove(t)
    \/ \E t \in Threads : SwapLock(t)
    \/ \E t \in Threads : Swap(t)
    \/ \E t \in Threads : ReleasePool(t)

NextWake ==
    \/ WakeSteps
    \/ \E c \in ConnIds : HandleIncoming(c)

\* the runtime goes on polling the tasks that can make progress, and a
\* call of handle_incoming, which waits for nothing, goes on to its end
SpecWake ==
    /\ Init
    /\ [][NextWake]_vars
    /\ WF_vars(WakeSteps)
    /\ \A c \in ConnIds : []<>(pc[Receiver(c)] # "round")

\* what a read of the specification of the notifications yields
NotifyChunks ==
    { ClientHello_encode(SECRET_A), ClientHello_encode(WRONG_SECRET) }

\* a step of the server on a runtime with several worker threads, where the
\* jobs of a connection run as soon as they are spawned
NextNotify ==
    \/ ListenerStart
    \/ AcceptLock(MaxConns)
    \/ AcceptInsert
    \/ AcceptTxLock
    \/ AcceptSpawn
    \/ AcceptNotifyOpened
    \/ \E c \in ConnIds : RxRead(c, MaxReads, NotifyChunks)
    \/ \E c \in ConnIds : RxClosed(c)
    \/ \E c \in ConnIds : HandleIncoming(c)
    \/ \E c \in ConnIds : TxNotified(c)
    \/ \E c \in ConnIds : TxAcquire(c)
    \/ \E c \in ConnIds : TxSwapLock(c)
    \/ \E c \in ConnIds : TxSwap(c)
    \/ \E c \in ConnIds : TxWrite(c)
    \/ \E c \in ConnIds : RxAborted(c)
    \/ \E c \in ConnIds : TxAborted(c)
    \/ \E t \in Threads : CloseAcquire(t)
    \/ \E t \in Threads : EnqueueLock(t)
    \/ \E t \in Threads : Enqueue(t)
    \/ \E t \in Threads : DropRef(t)
    \/ \E t \in Threads : RemoveLock(t)
    \/ \E t \in Threads : Remove(t)
    \/ \E t \in Threads : SwapLock(t)
    \/ \E t \in Threads : Swap(t)
    \/ \E t \in Threads : ReleasePool(t)

SpecNotify == Init /\ [][NextNotify]_vars

(***************************************************************************)
(* Panics and the locks.  pool and tx are std::sync::RwLock: a thread that *)
(* panics drops its guards while it unwinds, which poisons the locks, and  *)
(* every later write() of a poisoned lock yields Err, on which unwrap()    *)
(* panics in turn; try_write() yields Err as well.  The model keeps the    *)
(* panicked thread as the holder of a lock that it has poisoned.           *)
(***************************************************************************)
Poisoned(lock) == lock # NoThread /\ pc[lock] = "panicked"

\* thread t is at a self.pool.write().unwrap(): create_connection_object
\* after listener.accept(), connection_mut after a read of the receiver or
\* on the way to swap_send_buffer, and shutdown
AtPoolWrite(t) ==
    \/ pc[t] \in {"close_acq", "tx_acq", "stop_lock"}
    \/ pc[t] = "accept" /\ listener.abort = "armed"
    \/ pc[t] = "read" /\ t[2] \notin rx_aborted

\* thread t is at a self.tx.write().unwrap()
AtTxWrite(t) == pc[t] \in {"acc_tx_lock", "enq_lock", "rm_lock", "txswap_lock"}

\* write().unwrap() on a poisoned lock: the thread panics
PoisonPanic(t) ==
    /\ \/ AtPoolWrite(t) /\ Poisoned(pool_lock)
       \/ AtTxWrite(t) /\ Poisoned(tx_lock)
    /\ pc' = [pc EXCEPT ![t] = "panicked"]
    /\ UNCHANGED <<conns, next_connection_id, tx, notify, bc_queue, app,
                   pool_lock, tx_lock, bc_lock, rx_aborted, tx_aborted, rxl,
                   txl, hold, written, ext_calls, enq_log, bc_hist,
                   listener, notes, probe>>

\* a message that does not fit into one SendBuffer
LongMessage ==
    Have_NotThisModule_encode([i \in 1..SendBufferCap |-> "x"])

\* the closures of the task: enqueue_stdin and enqueue_message on every
\* connection, whatever its state
PanicClosures ==
    { EnqueueStdinBroadcast(<<"l","s","\n">>),
      EnqueueMessageBroadcast(Have_NotThisModule_encode(<<"f","o","o","9">>)),
      EnqueueMessageBroadcast(LongMessage) }

PanicChunks ==
    { ClientHello_encode(SECRET_A), StdoutHello_encode(STDOUT_SECRET) }

InitPanic ==
    /\ InitDispatch
    /\ probe \in [kind : {"closures"}, closures : [1..1 -> PanicClosures]]

\* a step of the server with two clients and the task
NextPanic ==
    \/ ListenerStart
    \/ AcceptLock(MaxConns)
    \/ AcceptInsert
    \/ AcceptTxLock
    \/ AcceptTxInsert
    \/ DemoCall(Len(probe.closures))
    \/ \E c \in ConnIds : RxRead(c, EnqMaxReads, PanicChunks)
    \/ \E c \in ConnIds : HandleIncoming(c)
    \/ \E c \in ConnIds : TxNotified(c)
    \/ \E c \in ConnIds : TxAcquire(c)
    \/ \E c \in ConnIds : TxSwapLock(c)
    \/ \E c \in ConnIds : TxSwap(c)
    \/ \E c \in ConnIds : TxWrite(c)
    \/ \E c \in ConnIds : RxAborted(c)
    \/ \E c \in ConnIds : TxAborted(c)
    \/ \E t \in Threads : EnqueueLock(t)
    \/ \E t \in Threads : Enqueue(t)
    \/ \E t \in Threads : BroadcastLock(t)
    \/ \E t \in Threads : BroadcastPush(t)
    \/ \E t \in Threads : BroadcastTry(t)
    \/ \E t \in Threads : DropRef(t)
    \/ \E t \in Threads : RemoveLock(t)
    \/ \E t \in Threads : Remove(t)
    \/ \E t \in Threads : SwapLock(t)
    \/ \E t \in Threads : Swap(t)
    \/ \E t \in Threads : ApplyBroadcastToConn(t)
    \/ \E t \in Threads : BroadcastDone(t)
    \/ \E t \in Threads : Sweep(t)
    \/ \E t \in Threads : ReleasePool(t)
    \/ \E t \in Threads : PoisonPanic(t)

SpecPanic == InitPanic /\ [][NextPanic]_vars

(***************************************************************************)
(* Properties of the dispatcher.                                           *)
(***************************************************************************)
\* C1: Teardown is final.  A step never changes the state of a connection
\* that is in state Teardown to another state: the connection is in state
\* Teardown after the step, or it has been removed from the pool.
TeardownIsFinal ==
    [][\A c \in DOMAIN conns :
          conns[c].state = Teardown
          => (c \notin DOMAIN conns' \/ conns'[c].state = Teardown)]_vars

\* a connection in state Teardown has been passed to handle_incoming with
\* bytes left in its receive buffer
TeardownSeesInput ==
    \E c \in DOMAIN conns :
       /\ conns[c].state = Teardown
       /\ pool_lock = Receiver(c)
       /\ pc[Receiver(c)] = "drop"
       /\ hold.ctx = "handler"
       /\ rxl[c].buf # <<>>

\* C3 as stated: whoever holds the tx lock holds the pool lock
TxLockOnlyUnderPoolLock == tx_lock # NoThread => pool_lock = tx_lock

\* the lock that thread t is about to acquire with a blocking call, if any
WantsPool(t) == pc[t] \in {"accept", "read", "close_acq", "tx_acq"}
WantsTx(t) == pc[t] \in {"acc_tx_lock", "enq_lock", "rm_lock", "txswap_lock"}
WantsBc(t) == pc[t] \in {"bc_call", "swap_lock"}

\* the thread that t waits for: the holder of the lock that t is about to
\* acquire, or of the pool lock if try_write neither succeeds nor fails
WaitsFor(t) ==
    IF WantsPool(t) THEN pool_lock
    ELSE IF WantsTx(t) THEN tx_lock
    ELSE IF WantsBc(t) THEN bc_lock
    ELSE IF pc[t] = "bc_try" /\ try_write(pool_lock) \notin {"ok", "would_block"}
    THEN pool_lock
    ELSE NoThread

Blocked(t) == WaitsFor(t) # NoThread

\* following the threads waited for from t, at most n of them, ends at a
\* thread that is not blocked
RECURSIVE Progresses(_, _)
Progresses(t, n) ==
    IF ~Blocked(t) THEN TRUE
    ELSE IF n = 0 THEN FALSE
    ELSE Progresses(WaitsFor(t), n - 1)

HoldsLock(t) == pool_lock = t \/ tx_lock = t \/ bc_lock = t

\* the steps of a thread that holds a lock; HandleIncoming(c) stands with
\* its guard, it is defined for every receive buffer
HolderStep(t) ==
    \/ t = AcceptLoop /\ (AcceptInsert \/ AcceptTxInsert)
    \/ \E c \in ConnIds : t = Receiver(c) /\ pc[t] = "round"
    \/ \E c \in ConnIds : t = Transmitter(c) /\ (TxSwapLock(c) \/ TxSwap(c))
    \/ EnqueueLock(t) \/ Enqueue(t)
    \/ BroadcastLock(t) \/ BroadcastPush(t) \/ BroadcastTry(t)
    \/ DropRef(t) \/ RemoveLock(t) \/ Remove(t)
    \/ SwapLock(t) \/ Swap(t)
    \/ ApplyBroadcastToConn(t) \/ BroadcastDone(t)
    \/ Sweep(t) \/ ReleasePool(t)

\* C4: no deadlock.  Every thread that waits for a lock waits for a chain of
\* holders that ends at a thread which waits for no lock, and every thread
\* that holds a lock and waits for none can take a step.
DeadlockFree ==
    /\ \A t \in Threads : Progresses(t, Cardinality(Threads))
    /\ \A t \in Threads : HoldsLock(t) /\ ~Blocked(t) => ENABLED HolderStep(t)

\* a handler is inside enqueue_broadcast, at try_write, while its own thread
\* holds the pool write lock, and another thread waits for that lock
HandlerBroadcastsUnderLock ==
    \E t \in Threads :
       /\ pc[t] = "bc_try"
       /\ pool_lock = t
       /\ \E u \in Threads : pc[u] \in {"close_acq", "tx_acq"}

\* C5 as stated: a broadcast never stays in the queue when no pool write
\* guard is outstanding and no enqueue_broadcast call is under way
NoBroadcastLeftBehind ==
    (/\ pool_lock = NoThread
     /\ \A t \in Threads : pc[t] \notin {"bc_call", "bc_push", "bc_try"})
    => bc_queue = <<>>

\* C6 as stated: whoever holds the mutex of the broadcast queue holds the
\* pool write lock
BcQueueOnlyUnderPoolLock == bc_lock # NoThread => pool_lock = bc_lock

\* C6: every access to the broadcast queue is made holding its mutex, and
\* the swap-out in do_maintenance is made by the holder of the pool write
\* lock; the push in enqueue_broadcast is made with or without that lock.
BcQueueSwapUnderPoolLock ==
    \A t \in Threads :
       /\ pc[t] = "bc_push" => bc_lock = t
       /\ pc[t] = "swap" => bc_lock = t /\ pool_lock = t

\* do_maintenance is about to swap out a queue that holds a broadcast
SwapOutOfPendingBroadcast ==
    \E t \in Threads : pc[t] = "swap" /\ bc_queue # <<>>

\* C9: broadcasts are executed in the order of their enqueue_broadcast
\* calls.  When a broadcast has been applied to a connection, every
\* broadcast whose enqueue_broadcast call had returned before its own was
\* made has been applied to all connections.
BroadcastsInOrder ==
    \A b \in bc_hist.started : bc_hist.pred[b].before = {}

\* a broadcast is being applied that was enqueued after the
\* enqueue_broadcast call of another one had returned
OrderedBroadcastStarted ==
    \E b \in bc_hist.started : bc_hist.pred[b].ordered

\* C10: a broadcast that drains is applied once to every connection of the
\* pool.  At the end of the loop over the connections each connection of the
\* pool has been visited once, and no connection is ever visited twice.
BroadcastReachesAll ==
    \A t \in Threads :
       pc[t] = "apply"
       => /\ \A c \in DOMAIN hold.hits : hold.hits[c] <= 1
          /\ hold.todo = {} => hold.hits = [c \in DOMAIN conns |-> 1]

\* the loop over the connections has ended in a pool of several connections
BroadcastDrainedOverPool ==
    \E t \in Threads :
       pc[t] = "apply" /\ hold.todo = {} /\ Cardinality(DOMAIN conns) > 1

(***************************************************************************)
(* Properties of the handshake and of the send path.                       *)
(***************************************************************************)
\* the step is a round of handle_incoming on connection c
IsRound(c) ==
    /\ pc[Receiver(c)] = "round"
    /\ pc'[Receiver(c)] # "round" \/ rxl'[c] # rxl[c]

\* the tag of the state that a connection in state Handshake takes on a
\* complete input
AfterHandshake(a, parsed) ==
    IF ~IsAcceptedHello(a, parsed) THEN "Teardown"
    ELSE CASE parsed.val.parsed_type.source = CLIENT_HELLO -> "Msgio"
           [] parsed.val.parsed_type.source = STDIN_HELLO -> "Stdin"
           [] parsed.val.parsed_type.source = STDOUT_HELLO -> "Stdout"

HandshakeRound(c, parsed) ==
    IF IsComplete(rxl[c].buf, parsed)
    THEN conns'[c].state.tag = AfterHandshake(app, parsed)
    ELSE conns'[c].state = Handshake

\* C2: a connection leaves state Handshake once.  A round of handle_incoming
\* on a complete input takes it to Msgio, Stdin or Stdout for a well-formed
\* client-hello, stdin-hello or stdout-hello whose secret the Application
\* accepts, and to Teardown for any other complete input; it stays in
\* Handshake on an incomplete input; any other step leaves it in Handshake
\* or closes it; and no step takes a connection back to Handshake.
HandshakeLeftOnce ==
    [][\A c \in DOMAIN conns \cap DOMAIN conns' :
          /\ conns[c].state = Handshake /\ IsRound(c)
             => HandshakeRound(c, Message_parse(rxl[c].buf))
          /\ conns[c].state = Handshake /\ ~IsRound(c)
             => conns'[c].state \in {Handshake, Teardown}
          /\ conns[c].state # Handshake => conns'[c].state # Handshake]_vars

\* a connection has become Msgio on its second read, nothing having been
\* sent to it before: its client-hello came in two parts
HelloCompletedByLaterRead ==
    \E c \in DOMAIN conns :
       /\ conns[c].state.tag = "Msgio"
       /\ pc[Receiver(c)] = "enq_lock"
       /\ rxl[c].reads > 1
       /\ enq_log[c] = <<>>

\* the bytes of a sequence of enqueue calls, in the order of the calls
RECURSIVE Flatten(_)
Flatten(log) ==
    IF log = <<>> THEN <<>> ELSE Head(log).bytes \o Flatten(Tail(log))

IsPrefix(p, s) == Len(p) <= Len(s) /\ SubSeq(s, 1, Len(p)) = p

\* C7: the bytes written to the socket of a connection are the bytes of its
\* enqueue calls in the order of the calls, up to where the transmitter has
\* got.
WrittenInOrder ==
    \A c \in ConnIds : IsPrefix(written[c], Flatten(enq_log[c]))

\* several enqueue calls, more than one send buffer full, have been written
\* to the socket of a connection
SeveralBuffersWritten ==
    \E c \in ConnIds :
       /\ Len(enq_log[c]) > 1
       /\ Len(written[c]) > SendBufferCap
       /\ written[c] = Flatten(enq_log[c])

\* the lengths of the filled buffers of a queue, in the order of the queue
RECURSIVE FilledLens(_)
FilledLens(bufs) ==
    IF bufs = <<>> THEN <<>>
    ELSE IF Len(Head(bufs)) > 0 THEN <<Len(Head(bufs))>> \o FilledLens(Tail(bufs))
    ELSE FilledLens(Tail(bufs))

RECURSIVE Sum(_)
Sum(lens) == IF lens = <<>> THEN 0 ELSE Head(lens) + Sum(Tail(lens))

\* the offsets in the stream of a connection at which a filled buffer of
\* its queue starts: the queue holds the end of the stream
BufferStarts(c) ==
    {Len(Flatten(enq_log[c])) - Sum(SubSeq(FilledLens(tx[c].bufs), k,
                                           Len(FilledLens(tx[c].bufs)))) :
       k \in 1..Len(FilledLens(tx[c].bufs))}

\* the offset lies inside the bytes of an enqueue_message call
InsideMessage(c, offset) ==
    \E i \in 1..Len(enq_log[c]) :
       /\ enq_log[c][i].kind = "message"
       /\ Len(Flatten(SubSeq(enq_log[c], 1, i - 1))) < offset
       /\ offset < Len(Flatten(SubSeq(enq_log[c], 1, i)))

\* C8: the bytes of an enqueue_message call lie in one send buffer, and they
\* reach the socket as one run.  No filled buffer of a queue starts inside
\* the bytes of a message, and the socket has got the bytes of the enqueue
\* calls without a gap, in their order.
MessagesStoredWhole ==
    /\ \A c \in DOMAIN tx : \A offset \in BufferStarts(c) :
          offset >= 0 /\ ~InsideMessage(c, offset)
    /\ \A c \in ConnIds : IsPrefix(written[c], Flatten(enq_log[c]))

\* a message that did not fit into the last filled buffer lies in the next
\* buffer of the queue
MessageInSecondBuffer ==
    \E c \in DOMAIN tx :
       /\ Len(FilledLens(tx[c].bufs)) > 1
       /\ enq_log[c][Len(enq_log[c])].kind = "message"

\* connection c is destroyed: it has left the pool and the tx map and both
\* its jobs have ended
Destroyed(c) ==
    /\ c < next_connection_id
    /\ c \notin DOMAIN conns
    /\ c \notin DOMAIN tx
    /\ pc[Receiver(c)] = "done"
    /\ pc[Transmitter(c)] = "done"

\* C11 as stated: a connection is destroyed only when all bytes enqueued
\* for it have been written to its socket, or after an IO error on its
\* socket
DestroyedAfterFlush ==
    \A c \in ConnIds :
       Destroyed(c) =>
          written[c] = Flatten(enq_log[c]) \/ notes.io_errors[c] > 0

\* C11: a connection leaves the pool only in state Teardown, and with that
\* step both its jobs are aborted; its send buffers leave the tx map only
\* after it has left the pool, whatever they still hold.
DestroyedOnlyInTeardown ==
    [][/\ \A c \in DOMAIN conns \ DOMAIN conns' :
            /\ conns[c].state = Teardown
            /\ c \in rx_aborted'
            /\ c \in tx_aborted'
       /\ \A c \in DOMAIN tx \ DOMAIN tx' :
            c \notin DOMAIN conns /\ c \in tx_aborted]_vars

\* a connection is destroyed without an IO error while a message enqueued
\* for it was never written
DestroyedUnflushed ==
    \E c \in ConnIds :
       /\ Destroyed(c)
       /\ notes.io_errors[c] = 0
       /\ enq_log[c] # <<>>
       /\ written[c] = <<>>

\* C13: a connection whose handshake has failed is in state Teardown until
\* it leaves the pool, no reply was ever enqueued for it and no byte was
\* ever written to its socket.
FailedHandshakeIsSilent ==
    \A c \in notes.hs_failed :
       /\ c \in DOMAIN conns => conns[c].state = Teardown
       /\ enq_log[c] = <<>>
       /\ written[c] = <<>>

\* a connection was destroyed after the Application has rejected the secret
\* of its client-hello
RejectedSecretDestroyed ==
    \E c \in notes.hs_failed :
       /\ Destroyed(c)
       /\ <<"authorize_client", WRONG_SECRET>> \in DOMAIN notes.auth

\* C14 as stated: at most one ConnectionIOError notification is delivered
\* for a connection, and a connection that has had one and is still in the
\* pool is in state Teardown or has a job on its way to set that state
IOErrorSurfacedOnce ==
    \A c \in ConnIds :
       /\ notes.io_errors[c] <= 1
       /\ notes.io_errors[c] = 1 /\ c \in DOMAIN conns
          => \/ conns[c].state = Teardown
             \/ "close_acq" \in {pc[Receiver(c)], pc[Transmitter(c)]}

\* the secret of an authorize call is a valid one: that of a registered
\* client, or that of the stdin or the stdout of the screen
ValidSecret(key) ==
    CASE key[1] = "authorize_client" -> FindSecret(app.clients, key[2]) # 0
      [] key[1] = "authorize_stdin" -> key[2] = STDIN_SECRET
      [] key[1] = "authorize_stdout" -> key[2] = STDOUT_SECRET

\* C16 as stated: the handshake code calls an authorize function at most
\* once for any valid secret
AuthorizeCalledOnce ==
    \A key \in DOMAIN notes.auth : ValidSecret(key) => notes.auth[key] <= 1

\* C16: the handshake of a connection makes at most one authorize call, and
\* of all the calls made with a secret at most one returns Some.
SecretGrantedOnce ==
    /\ \A c \in ConnIds : notes.auth_conn[c] <= 1
    /\ \A key \in DOMAIN notes.granted : notes.granted[key] <= 1

\* authorize_client was called twice with the secret of client a, by two
\* connections, and has returned Some once
SecretReplayed ==
    /\ <<"authorize_client", SECRET_A>> \in DOMAIN notes.granted
    /\ notes.auth[<<"authorize_client", SECRET_A>>] = 2
    /\ notes.granted[<<"authorize_client", SECRET_A>>] = 1
    /\ \A c \in ConnIds : notes.auth_conn[c] = 1

\* C12: while the pool write lock is free, no connection of the pool is in
\* state Teardown, and every connection that has left the pool has had both
\* its jobs aborted and has left the tx map.
NoTeardownInFreePool ==
    pool_lock = NoThread =>
       /\ \A c \in DOMAIN conns : conns[c].state # Teardown
       /\ \A c \in 0..(next_connection_id - 1) \ DOMAIN conns :
             /\ c \in rx_aborted
             /\ c \in tx_aborted
             /\ c \notin DOMAIN tx

\* the pool lock is free after the sweep that follows a broadcast has taken
\* the connection of client ab out of the pool, while the connection that
\* has sent the lifetime-end is still a Msgio connection of the pool
SweptAfterBroadcast ==
    /\ pool_lock = NoThread
    /\ bc_hist.calls > 0
    /\ \E c \in DOMAIN conns : conns[c].state.tag = "Msgio"
    /\ \E c \in ConnIds :
          /\ c < next_connection_id
          /\ c \notin DOMAIN conns
          /\ c \notin notes.hs_failed

\* the client ID whose lifetime the first message of the receive buffer of a
\* Msgio connection ends: that of a core1.lifetime-end for a client strictly
\* below the sender
EndsLifetime(state, buf) ==
    LET ended(m) ==
            IF m # None /\ StrictlyBelow_contains(state.who.id, m.val)
            THEN m ELSE None
        first(parsed) ==
            IF parsed.ok THEN ended(LifetimeEnd_decode(parsed.val)) ELSE None
    IN  first(Message_parse(buf))

\* C17 as stated: when a Msgio connection handles a core1.lifetime-end for a
\* client ID strictly below its own, unregister_clients(AtOrBelow(id)) is
\* invoked: the Application has no client at or below that ID afterwards
LifetimeEndUnregisters ==
    [][\A c \in DOMAIN conns :
          (/\ IsRound(c)
           /\ conns[c].state.tag = "Msgio"
           /\ EndsLifetime(conns[c].state, rxl[c].buf) # None)
          => ~has_clients_AtOrBelow(
                 app', EndsLifetime(conns[c].state, rxl[c].buf).val)]_vars

\* run_listener has resolved to Ok(()): the accept loop has stopped, the
\* jobs of every accepted connection have been aborted and the socket path
\* has been removed
ListenerResolved ==
    /\ listener.resolved = "Ok"
    /\ pc[AcceptLoop] = "done"
    /\ ~listener.bound
    /\ \A c \in 0..(next_connection_id - 1) :
          c \in rx_aborted /\ c \in tx_aborted

\* C15 as stated: whenever shutdown() is called, the run_listener() future
\* eventually resolves to Ok(()) with the accept loop stopped, all jobs
\* aborted and the socket path removed
ShutdownResolves == (listener.shutdown_calls > 0) ~> ListenerResolved

\* a shutdown() that has triggered the abort handle stored by run_listener
\* leads to the resolution of run_listener
ArmedShutdownResolves == (listener.abort = "aborted") ~> ListenerResolved

\* the probe has applied handle_incoming to a Msgio connection whose receive
\* buffer starts with a well-formed core1.client-make
IsMakeProbe ==
    /\ probe # None
    /\ probe.kind = "round"
    /\ probe.out # None
    /\ probe.state.tag = "Msgio"
    /\ Message_parse(probe.buf).ok
    /\ ClientMake_decode(Message_parse(probe.buf).val) # None

\* the ID that the client-make of the probe asks for
MakeId == ClientMake_decode(Message_parse(probe.buf).val).val.id

\* the requested ID is strictly below that of the requester, and no client
\* is registered with that ID or with one below it
MakeAllowed ==
    /\ Len(probe.state.who.id) < Len(MakeId)
    /\ SubSeq(MakeId, 1, Len(probe.state.who.id)) = probe.state.who.id
    /\ \A i \in 1..Len(probe.app.clients) :
          LET id == probe.app.clients[i].identity.id
          IN  ~(Len(id) >= Len(MakeId) /\ SubSeq(id, 1, Len(MakeId)) = MakeId)

\* the type of the one message that the round of the probe has enqueued
ReplyType ==
    IF probe.out.val.reply = None THEN <<>>
    ELSE Message_parse(probe.out.val.reply.val).val.parsed_type.source

\* C18: a client-make of a Msgio connection leads to a call of
\* register_client exactly if the requested ID is strictly below the ID of
\* the requester and no registered client is at or below it; then the client
\* is registered and the reply is a client-new, otherwise the Application
\* stays as it is and the reply is a nope.
RegistersOnlyBelow ==
    IsMakeProbe =>
       LET made == {i \in 1..Len(probe.out.val.calls) :
                       probe.out.val.calls[i].fn = "register_client"}
       IN  IF MakeAllowed
           THEN /\ Cardinality(made) = 1
                /\ Len(probe.out.val.app.clients) = Len(probe.app.clients) + 1
                /\ probe.out.val.app.clients[Len(probe.app.clients) + 1]
                       .identity.id = MakeId
                /\ ReplyType = CLIENT_NEW
           ELSE /\ made = {}
                /\ probe.out.val.app = probe.app
                /\ ReplyType = MT_NOPE
                /\ probe.out.val.state = probe.state

\* client a has asked for client ab, no client at or below ab was
\* registered, and register_client was called
MakeGranted ==
    /\ IsMakeProbe
    /\ probe.state.who.id = CLIENT_A
    /\ MakeId = CLIENT_AB
    /\ probe.app = AppInit
    /\ ReplyType = CLIENT_NEW
    /\ \E i \in 1..Len(probe.out.val.calls) :
          probe.out.val.calls[i].fn = "register_client"

\* client a has asked for client ab while client abc was registered, and
\* has got a nope
MakeRefusedAboveChild ==
    /\ IsMakeProbe
    /\ probe.state.who.id = CLIENT_A
    /\ MakeId = CLIENT_AB
    /\ probe.app = AppWith(<<CLIENT_ABC>>)
    /\ ReplyType = MT_NOPE

\* the reply of the probe is one message of the given type with the given
\* arguments
ReplyIs(type, arguments) ==
    /\ probe.out.val.reply # None
    /\ Message_parse(probe.out.val.reply.val).ok
    /\ Message_parse(probe.out.val.reply.val).val.bytes_parsed
          = Len(probe.out.val.reply.val)
    /\ Message_parse(probe.out.val.reply.val).val.parsed_type.source = type
    /\ Message_parse(probe.out.val.reply.val).val.arguments = arguments

\* the argument of the have that answers an unknown message of the module
HaveArgument(module) ==
    IF get_supported_module_version(module) # None
    THEN module \o <<".">>
         \o encode_usize(get_supported_module_version(module).val)
    ELSE module

\* the baseline reply to the message msg after the handler result
IsBaselineReply(msg, result) ==
    /\ probe.out.val.state = probe.state
    /\ probe.out.val.broadcast = None
    /\ IF result = "InvalidMessage"
       THEN ReplyIs(MT_NOPE, <<msg.parsed_type.source>>)
       ELSE IF msg.parsed_type.scoped
       THEN ReplyIs(MT_HAVE, <<HaveArgument(msg.parsed_type.module)>>)
       ELSE ReplyType = MT_NOPE

InvalidWantAnswered ==
    /\ probe # None
    /\ probe.kind = "round"
    /\ probe.rounds = 1
    /\ probe.state.tag = "Msgio"
    /\ probe.buf = FormatMessage(MT_WANT, <<>>)
    /\ probe.out.val.reply = Some(<<"{","2","|","4",":","n","o","p","e",",","4",":","w","a","n","t",",","}">>)

\* the number of bytes before the first "{" at an offset greater than 0, or
\* the length of the buffer if there is none
BeforeNextOpener(buf) ==
    LET openers == {i \in 2..Len(buf) : buf[i] = "{"}
    IN  IF openers = {} THEN Len(buf)
        ELSE (CHOOSE i \in openers : \A j \in openers : i <= j) - 1

\* the slices that the round of the probe has reported as discarded
DiscardedSlices ==
    SelectSeq(probe.out.val.calls,
              LAMBDA call : call.fn = "notify_IncomingBytesDiscarded")

\* the probe has applied handle_incoming in state Handshake or Msgio to a
\* receive buffer that does not start with a message
IsGarbageProbe ==
    /\ probe # None
    /\ probe.kind = "round"
    /\ probe.out # None
    /\ probe.state.tag \in {"Handshake", "Msgio"}
    /\ probe.buf # <<>>
    /\ ~Message_parse(probe.buf).ok

\* C20: on a parse error other than UnexpectedEOF a round of handle_incoming
\* discards the bytes before the next "{" at an offset greater than 0, or
\* the whole buffer, reports that slice in one IncomingBytesDiscarded
\* notification, leaves the rest of the buffer as it is and goes on; on
\* UnexpectedEOF it discards and reports nothing, leaves the state and
\* returns.
DiscardsToNextOpener ==
    IsGarbageProbe =>
       IF Message_parse(probe.buf).kind = "UnexpectedEOF"
       THEN /\ probe.out.val.buf = probe.buf
            /\ probe.out.val.calls = <<>>
            /\ probe.out.val.state = probe.state
            /\ probe.out.val.reply = None
            /\ ~probe.out.val.again
       ELSE /\ probe.out.val.buf
                 = SubSeq(probe.buf, BeforeNextOpener(probe.buf) + 1,
                          Len(probe.buf))
            /\ Len(DiscardedSlices) = 1
            /\ DiscardedSlices[1].arg
                 = SubSeq(probe.buf, 1, BeforeNextOpener(probe.buf))
            /\ probe.out.val.again

\* of the input garbage{1|4:want, a Msgio connection has discarded and
\* reported garbage and kept the rest
GarbageDiscarded ==
    /\ IsGarbageProbe
    /\ probe.state.tag = "Msgio"
    /\ probe.buf = <<"g","a","r","b","a","g","e","{","1","|","4",":","w","a","n","t",",">>
    /\ probe.out.val.buf = <<"{","1","|","4",":","w","a","n","t",",">>
    /\ DiscardedSlices[1].arg = <<"g","a","r","b","a","g","e">>

\* with the rest of that input, the start of a message, the next round has
\* returned to wait for more bytes
WaitsAfterGarbage ==
    /\ IsGarbageProbe
    /\ probe.rounds = 2
    /\ probe.buf = <<"{","1","|","4",":","w","a","n","t",",">>
    /\ probe.out.val.buf = probe.buf
    /\ ~probe.out.val.again

\* the probe has applied handle_incoming to a Stdin connection with a
\* receive buffer that is not empty
IsStdinProbe ==
    /\ probe # None
    /\ probe.kind = "round"
    /\ probe.out # None
    /\ probe.state.tag = "Stdin"
    /\ probe.buf # <<>>

\* C21: handle_incoming on a connection in state Stdin with a receive buffer
\* that is not empty sets the state to Teardown, notifies the Application
\* once of IncomingBytesDiscarded with the whole contents of the buffer, and
\* leaves the buffer empty; it enqueues nothing and does not call itself
\* again.
StdinInputTearsDown ==
    IsStdinProbe =>
       /\ probe.out.val.state = Teardown
       /\ Len(probe.out.val.calls) = 1
       /\ DiscardedSlices = <<[fn |-> "notify_IncomingBytesDiscarded",
                               arg |-> probe.buf, ret |-> None]>>
       /\ probe.out.val.buf = <<>>
       /\ probe.out.val.reply = None
       /\ probe.out.val.broadcast = None
       /\ ~probe.out.val.again
       /\ probe.rounds = 1

\* a Stdin connection has received a well-formed stdin-hello once more, and
\* is in state Teardown with the hello reported as discarded
StdinHelloDiscarded ==
    /\ IsStdinProbe
    /\ probe.buf = StdinHello_encode(STDIN_SECRET)
    /\ probe.out.val.state = Teardown
    /\ DiscardedSlices[1].arg = StdinHello_encode(STDIN_SECRET)
    /\ probe.out.val.buf = <<>>

\* the bytes of a sequence of slices, in order
RECURSIVE Concat(_)
Concat(slices) ==
    IF slices = <<>> THEN <<>> ELSE Head(slices) \o Concat(Tail(slices))

\* the bytes that connection c has received behind its first message
AfterHello(c) ==
    SubSeq(notes.arrived[c], Message_parse(notes.arrived[c]).val.bytes_parsed + 1,
           Len(notes.arrived[c]))

\* connection c, in state Stdout, has passed to its StdoutConnector what it
\* has received behind the stdout-hello, but for what is still in the
\* receive buffer of a call of handle_incoming that has not returned
DeliveredInOrder(c) ==
    /\ Message_parse(notes.arrived[c]).ok
    /\ Message_parse(notes.arrived[c]).val.parsed_type.source = STDOUT_HELLO
    /\ Concat(notes.stdout[c]) \o rxl[c].buf = AfterHello(c)
    /\ pc[Receiver(c)] # "round" => rxl[c].buf = <<>>
    /\ \A i \in 1..Len(notes.stdout[c]) : notes.stdout[c][i] # <<>>

\* a step leaves a Stdout connection in the pool and in state Stdout, unless
\* it is the set_state(Teardown) of a job of the connection after EOF or an
\* IO error
StdoutStays ==
    \A c \in DOMAIN conns :
       conns[c].state.tag = "Stdout" =>
          /\ c \in DOMAIN conns'
          /\ \/ conns'[c].state = conns[c].state
             \/ /\ conns'[c].state = Teardown
                /\ \E t \in {Receiver(c), Transmitter(c)} :
                      pc[t] = "close_acq" /\ pc'[t] = "drop"

\* C22: whatever a connection in state Stdout has received on its socket
\* behind the stdout-hello, in the same read or in later reads, has been
\* passed to StdoutConnector::receive once and in the order of arrival when
\* handle_incoming has returned, and the connection stays in state Stdout
\* until its receiver reads EOF or one of its jobs meets an IO error.
StdoutBytesDelivered ==
    /\ [](\A c \in DOMAIN conns :
            conns[c].state.tag = "Stdout" => DeliveredInOrder(c))
    /\ [][StdoutStays]_vars

\* a connection has received hi in the read of its stdout-hello and two more
\* bytes in a second read, and has passed both to its StdoutConnector
StdoutTwoReadsDelivered ==
    \E c \in DOMAIN conns :
       /\ conns[c].state.tag = "Stdout"
       /\ notes.arrived[c]
             = StdoutHello_encode(STDOUT_SECRET) \o <<"h","i","}","{">>
       /\ notes.stdout[c] = << <<"h","i">>, <<"}","{">> >>
       /\ rxl[c].buf = <<>>

\* the state of a connection allows an enqueue operation of the given kind:
\* enqueue_message in Handshake and Msgio, enqueue_stdin in Stdin
EnqueueValid(kind, state) ==
    IF kind = "message" THEN state.tag \in {"Handshake", "Msgio"}
    ELSE state.tag = "Stdin"

\* the number of bytes in the send buffers of the connections
RECURSIVE QueuedBytes(_)
QueuedBytes(bufs) ==
    IF bufs = <<>> THEN 0 ELSE Len(Head(bufs)) + QueuedBytes(Tail(bufs))

\* thread t leaves the state check of an enqueue operation: into a panic
\* that leaves the send buffers of all connections as they are if the state
\* of the connection does not allow the operation, and on to the send
\* buffers if it does
EnqueueChecked(t) ==
    (pc[t] = "enq_lock" /\ pc'[t] # "enq_lock") =>
       IF EnqueueValid(hold.out.val.kind, conns[hold.target].state)
       THEN pc'[t] = "enq"
       ELSE pc'[t] = "panicked" /\ tx' = tx /\ notify' = notify

\* a step that adds bytes to the send buffers of connection c is made by an
\* enqueue operation that the state of c allows
EnqueuedWhereValid(c) ==
    (c \in DOMAIN tx /\ c \in DOMAIN tx'
     /\ QueuedBytes(tx'[c].bufs) > QueuedBytes(tx[c].bufs)) =>
       /\ hold.out # None
       /\ hold.target = c
       /\ c \in DOMAIN conns
       /\ EnqueueValid(hold.out.val.kind, conns[c].state)

\* C23: enqueue_message on a connection whose state is neither Handshake nor
\* Msgio, and enqueue_stdin on a connection whose state is not Stdin, panic
\* and leave the send buffers as they are; bytes get into the send buffers of
\* a connection only by an operation that its state allows.
InvalidEnqueuePanics ==
    [][/\ \A t \in Threads : EnqueueChecked(t)
       /\ \A c \in ConnIds : EnqueuedWhereValid(c)]_vars

\* enqueue_message has panicked on a Stdout connection, whose send buffers
\* are empty
MessageToStdoutPanicked ==
    \E t \in Threads :
       /\ pc[t] = "panicked"
       /\ hold.out # None
       /\ hold.out.val.kind = "message"
       /\ hold.target \in DOMAIN conns
       /\ conns[hold.target].state.tag = "Stdout"
       /\ QueuedBytes(tx[hold.target].bufs) = 0
       /\ written[hold.target] = <<>>

\* enqueue_stdin has panicked on a Msgio connection
StdinToMsgioPanicked ==
    \E t \in Threads :
       /\ pc[t] = "panicked"
       /\ hold.out # None
       /\ hold.out.val.kind = "stdin"
       /\ hold.target \in DOMAIN conns
       /\ conns[hold.target].state.tag = "Msgio"

\* enqueue_message has panicked on a connection in state Teardown
MessageToTeardownPanicked ==
    \E t \in Threads :
       /\ pc[t] = "panicked"
       /\ hold.out # None
       /\ hold.out.val.kind = "message"
       /\ hold.target \in DOMAIN conns
       /\ conns[hold.target].state = Teardown

\* the bytes of connection c that its transmitter has taken out of the queue
\* and not yet written: its buffer, from swap_send_buffer to the write; on
\* its way back to swap_send_buffer the buffer holds what was written
InFlight(c) ==
    IF txl[c] # None /\ pc[Transmitter(c)] \notin {"tx_acq", "txswap_lock", "txswap"}
    THEN txl[c].val ELSE <<>>

\* the bytes passed to the enqueue calls of the given kind on connection c,
\* in the order of the calls
EnqueuedBytes(c, kind) ==
    Flatten(SelectSeq(enq_log[c], LAMBDA call : call.kind = kind))

\* C24: for a connection in state Stdin, the bytes written to the socket,
\* followed by the buffer that the transmitter is writing and by the send
\* buffers of the queue in their order, are the bytes of the enqueue_stdin
\* calls in the order of the calls, however the calls are split over send
\* buffers, behind the messages that were enqueued while the connection was
\* in state Handshake, if there were any; when the transmitter sleeps with
\* no wakeup pending, all of them have been written.
StdinWrittenInOrder ==
    \A c \in DOMAIN conns :
       (conns[c].state.tag = "Stdin" /\ c \in DOMAIN tx) =>
          /\ written[c] \o InFlight(c) \o Concat(tx[c].bufs)
                = EnqueuedBytes(c, "message") \o EnqueuedBytes(c, "stdin")
          /\ \A i \in 1..Len(tx[c].bufs) : Len(tx[c].bufs[i]) <= SendBufferCap
          /\ (pc[Transmitter(c)] = "notified" /\ ~notify[c])
                => written[c] = EnqueuedBytes(c, "message")
                                \o EnqueuedBytes(c, "stdin")

\* a Stdin connection has got an input longer than a send buffer and a
\* second, short input, and both have been written to its socket, the
\* second behind the first
PasteWritten ==
    \E c \in DOMAIN conns :
       /\ conns[c].state.tag = "Stdin"
       /\ Len(enq_log[c]) = 2
       /\ enq_log[c][1] = [kind |-> "stdin", bytes |-> Paste]
       /\ enq_log[c][2] = [kind |-> "stdin", bytes |-> <<"l","s","\n">>]
       /\ written[c] = Paste \o <<"l","s","\n">>

\* the long input lies in two send buffers of the queue, the first of them
\* full
PasteSplit ==
    \E c \in DOMAIN conns :
       /\ conns[c].state.tag = "Stdin"
       /\ c \in DOMAIN tx
       /\ Len(tx[c].bufs) >= 2
       /\ Len(tx[c].bufs[1]) = SendBufferCap
       /\ tx[c].bufs[1] \o tx[c].bufs[2] = Paste

\* a bytestring as it stands in a message: its length, a colon, the bytes
\* and a comma
Netstring(b) == encode_usize(Len(b)) \o <<":">> \o b \o <<",">>

\* the posix1.server-hello for an identity: four arguments, a screen that
\* the identity does not have as the empty bytestring
ExpectedServerHello(identity) ==
    <<"{","5","|">> \o Netstring(SERVER_HELLO) \o Netstring(identity.id)
    \o Netstring(IF identity.stdin = None THEN <<>> ELSE identity.stdin.val)
    \o Netstring(IF identity.stdout = None THEN <<>> ELSE identity.stdout.val)
    \o Netstring(IF identity.stderr = None THEN <<>> ELSE identity.stderr.val)
    \o <<"}">>

\* the clients of the Application of the probe that have the given secret
\* and have not been authorized
Unauthorized(secret) ==
    {i \in 1..Len(probe.app.clients) :
        probe.app.clients[i].secret = secret /\ ~probe.app.clients[i].authorized}

\* the probe has applied one round of handle_incoming to a connection in
\* state Handshake whose buffer starts with a well-formed client-hello
IsClientHelloProbe ==
    /\ probe # None
    /\ probe.kind = "round"
    /\ probe.rounds = 1
    /\ probe.state = Handshake
    /\ Message_parse(probe.buf).ok
    /\ Message_parse(probe.buf).val.parsed_type.source = CLIENT_HELLO
    /\ Len(Message_parse(probe.buf).val.arguments) = 1

\* C25: a well-formed client-hello received in state Handshake whose secret
\* the Application authorizes puts the connection into state Msgio with the
\* identity of that secret and enqueues one message, the posix1.server-hello
\* with the client ID and the three screens of the identity, a missing
\* screen as the empty bytestring; with a secret that the Application does
\* not authorize nothing is enqueued and the state is Teardown.
ClientHelloAnswered ==
    IsClientHelloProbe =>
       LET secret == Message_parse(probe.buf).val.arguments[1]
           hits == Unauthorized(secret)
           identity(i) == probe.app.clients[i].identity
       IN  IF hits # {}
           THEN \E i \in hits :
                   /\ probe.out.val.state = Msgio(identity(i))
                   /\ probe.out.val.reply = Some(ExpectedServerHello(identity(i)))
                   /\ probe.out.val.broadcast = None
                   /\ probe.out.val.app.clients[i].authorized
                   /\ probe.out.val.buf
                         = SubSeq(probe.buf,
                                  Message_parse(probe.buf).val.bytes_parsed + 1,
                                  Len(probe.buf))
           ELSE /\ probe.out.val.state = Teardown
                /\ probe.out.val.reply = None
                /\ probe.out.val.app = probe.app

\* client a without screens has said hello and the reply is
\* {5|19:posix1.server-hello,1:a,0:,0:,0:,}
ServerHelloWithoutScreens ==
    /\ IsClientHelloProbe
    /\ probe.buf = ClientHello_encode(SECRET_A)
    /\ probe.out.val.state.tag = "Msgio"
    /\ probe.out.val.reply
          = Some(<<"{","5","|","1","9",":","p","o","s","i","x","1",".","s","e",
                   "r","v","e","r","-","h","e","l","l","o",",","1",":","a",",",
                   "0",":",",","0",":",",","0",":",",","}">>)

\* client ab with screens for stdin and stdout has said hello and the reply
\* names both screens
ServerHelloWithScreens ==
    /\ IsClientHelloProbe
    /\ probe.out.val.state = Msgio(IDENTITY_AB_SCREENS)
    /\ probe.out.val.reply
          = Some(FormatMessage(SERVER_HELLO, <<CLIENT_AB, SCREEN1, SCREEN1, <<>>>>))

\* at the dispatch the server-hello is the first message enqueued for a
\* Msgio connection, and no second one follows
ServerHelloFirst ==
    \A c \in DOMAIN conns :
       conns[c].state.tag = "Msgio" =>
          \A i \in 1..Len(enq_log[c]) :
             (i = 1) <=> (enq_log[c][i]
                           = [kind |-> "message",
                              bytes |-> ExpectedServerHello(conns[c].state.who)])

\* the probe has applied one round of handle_incoming to a Msgio connection
\* whose buffer starts with a want that has one argument, a module
\* identifier
IsWantProbe ==
    /\ probe # None
    /\ probe.kind = "round"
    /\ probe.rounds = 1
    /\ probe.state.tag = "Msgio"
    /\ Message_parse(probe.buf).ok
    /\ Message_parse(probe.buf).val.parsed_type.source = MT_WANT
    /\ Len(Message_parse(probe.buf).val.arguments) = 1
    /\ ModuleIdentifier_parse(Message_parse(probe.buf).val.arguments[1]) # None

\* the module that the want of the probe asks for
WantedModule == Message_parse(probe.buf).val.arguments[1]

\* C26: in state Msgio a well-formed (want M) is answered with one message
\* and changes nothing else: {2|4:have,7:core1.0,} for core1, the module that
\* the handler chain supports with minor version 0, and the negative
\* (have M) for every other module.
WantAnsweredWithHave ==
    IsWantProbe =>
       /\ probe.out.val.reply
             = Some(<<"{","2","|">> \o Netstring(MT_HAVE)
                    \o Netstring(IF WantedModule = <<"c","o","r","e","1">>
                                 THEN WantedModule \o <<".","0">>
                                 ELSE WantedModule)
                    \o <<"}">>)
       /\ probe.out.val.state = probe.state
       /\ probe.out.val.app = probe.app
       /\ probe.out.val.broadcast = None
       /\ probe.out.val.calls = <<>>
       /\ probe.out.val.buf
             = SubSeq(probe.buf, Message_parse(probe.buf).val.bytes_parsed + 1,
                      Len(probe.buf))

\* {2|4:want,5:core1,} was answered with {2|4:have,7:core1.0,}
WantCoreAnswered ==
    /\ IsWantProbe
    /\ probe.buf = <<"{","2","|","4",":","w","a","n","t",",","5",":","c","o","r","e","1",",","}">>
    /\ probe.out.val.reply
          = Some(<<"{","2","|","4",":","h","a","v","e",",","7",":","c","o","r","e","1",".","0",",","}">>)

\* {2|4:want,4:foo9,} was answered with {2|4:have,4:foo9,}
WantFooAnswered ==
    /\ IsWantProbe
    /\ probe.buf = <<"{","2","|","4",":","w","a","n","t",",","4",":","f","o","o","9",",","}">>
    /\ probe.out.val.reply
          = Some(<<"{","2","|","4",":","h","a","v","e",",","4",":","f","o","o","9",",","}">>)

\* the formatter has written a message of a valid type and the parser has
\* read the bytes
IsFormatProbe ==
    /\ probe # None
    /\ probe.kind = "format"
    /\ probe.out # None
    /\ MessageType_parse(probe.type) # None

\* C27: the parser reads the bytes that the formatter writes for a valid
\* message type and any arguments as a message of that type with those
\* arguments, and reports as consumed the number of bytes written.
ParseInvertsFormat ==
    IsFormatProbe =>
       /\ probe.out.val.ok
       /\ probe.out.val.val.parsed_type.source = probe.type
       /\ probe.out.val.val.arguments = probe.args
       /\ probe.out.val.val.bytes_parsed = Len(probe.bytes)

\* a message with an argument of ten bytes and an argument made of a closer
\* and an opener was written and read back
FramingBytesRoundTrip ==
    /\ IsFormatProbe
    /\ probe.args = << <<"0","1","2","3","4","5","6","7","8","9">>,
                       <<"}","{">> >>
    /\ probe.out.val.ok
    /\ probe.out.val.val.arguments = probe.args

\* a message of ten items was written and read back
TenItemsRoundTrip ==
    /\ IsFormatProbe
    /\ Len(probe.args) = 9
    /\ SubSeq(probe.bytes, 1, 4) = <<"{","1","0","|">>
    /\ probe.out.val.ok
    /\ probe.out.val.val.bytes_parsed = Len(probe.bytes)

\* the formatter wrote a type name that is no message type, and the parser
\* refused it
InvalidTypeFormatted ==
    /\ probe # None
    /\ probe.kind = "format"
    /\ probe.out # None
    /\ MessageType_parse(probe.type) = None
    /\ ~probe.out.val.ok
    /\ probe.out.val.kind = "InvalidMessageType"

\* the parser has been applied to the first probe.cut bytes of a buffer that
\* is one encoded message, and fewer bytes than the whole
IsPrefixProbe ==
    /\ probe # None
    /\ probe.kind = "prefix"
    /\ probe.out # None
    /\ Message_parse(probe.whole).ok
    /\ Message_parse(probe.whole).val.bytes_parsed = Len(probe.whole)
    /\ probe.cut < Len(probe.whole)

\* C28: on every proper prefix of an encoded message, the empty one
\* included, Message::parse fails with UnexpectedEOF at the offset that is
\* the length of the prefix.
PrefixIsUnexpectedEOF ==
    IsPrefixProbe =>
       /\ ~probe.out.val.ok
       /\ probe.out.val.kind = "UnexpectedEOF"
       /\ probe.out.val.offset = probe.cut

\* {4|4:want,4:co was parsed: the prefix ends inside the contents of a string
PrefixCutInsideString ==
    /\ IsPrefixProbe
    /\ SubSeq(probe.whole, 1, probe.cut)
         = <<"{","4","|","4",":","w","a","n","t",",","4",":","c","o">>
    /\ probe.out.val = Err("UnexpectedEOF", 14)

\* the empty prefix was parsed
EmptyPrefixParsed ==
    /\ IsPrefixProbe
    /\ probe.cut = 0
    /\ probe.out.val = Err("UnexpectedEOF", 0)

\* a prefix that ends inside a size of two digits was parsed
PrefixCutInsideSize ==
    /\ IsPrefixProbe
    /\ SubSeq(probe.whole, 1, probe.cut) = <<"{","1","|","1">>
    /\ probe.out.val = Err("UnexpectedEOF", 4)

\* the parser has been applied to a buffer that has, where a count or a size
\* is read, a numeral with leading zeroes
IsZeroesProbe ==
    /\ probe # None
    /\ probe.kind = "zeroes"
    /\ probe.out # None
    /\ Message_parse(probe.before \o <<"#">>)
         = Err("ExpectedDecimalNumber", Len(probe.before))
    /\ Len(probe.numeral) > 1
    /\ probe.numeral[1] = "0"
    /\ \A i \in 1..Len(probe.numeral) : probe.numeral[i] \in Digits
    /\ probe.after = <<>> \/ probe.after[1] \notin Digits

\* C29, as amended: when the count or a size of a message has leading
\* zeroes, Message::parse fails with DecimalNumberHasLeadingZeroes, and the
\* error offset is the offset behind the last digit of that numeral.
LeadingZeroesBehindNumeral ==
    IsZeroesProbe =>
       /\ ~probe.out.val.ok
       /\ probe.out.val.kind = "DecimalNumberHasLeadingZeroes"
       /\ probe.out.val.offset = Len(probe.before) + Len(probe.numeral)

\* C29, as stated: the parse fails with DecimalNumberHasLeadingZeroes and
\* the error offset is the offset of a digit of the numeral, the first one
\* that a numeral without leading zeroes would not have.
LeadingZeroesAtExtraDigit ==
    IsZeroesProbe =>
       /\ ~probe.out.val.ok
       /\ probe.out.val.kind = "DecimalNumberHasLeadingZeroes"
       /\ probe.out.val.offset >= Len(probe.before)
       /\ probe.out.val.offset < Len(probe.before) + Len(probe.numeral)

\* {1|010:sig1.claim,} was refused at offset 6, the offset of the ":"
ZeroesInSizeRefused ==
    /\ IsZeroesProbe
    /\ probe.before = <<"{","1","|">>
    /\ probe.numeral = <<"0","1","0">>
    /\ probe.after = <<":","s","i","g","1",".","c","l","a","i","m",",","}">>
    /\ probe.out.val = Err("DecimalNumberHasLeadingZeroes", 6)

\* {01|10:sig1.claim,} was refused at offset 3, the offset of the "|"
ZeroesInCountRefused ==
    /\ IsZeroesProbe
    /\ probe.before = <<"{">>
    /\ probe.numeral = <<"0","1">>
    /\ probe.after
         = <<"|","1","0",":","s","i","g","1",".","c","l","a","i","m",",","}">>
    /\ probe.out.val = Err("DecimalNumberHasLeadingZeroes", 3)

\* a decoder of an integer type has been applied to an argument
IsDecodeProbe ==
    /\ probe # None
    /\ probe.kind = "decode"
    /\ probe.out # None

\* C30: the decoder of an integer type accepts an argument only if it is
\* the encoding of the value that it decodes to.
DecodesOnlyCanonical ==
    (IsDecodeProbe /\ probe.out.val # None)
       => encode_integer(probe.out.val.val) = probe.arg

\* the decoders do what the encoders undo: every argument that is the
\* encoding of a value of the type decodes to that value
DecodeInvertsEncode ==
    IsDecodeProbe =>
       \A x \in {-32768, -129, -128, -42, 0, 7, 42, 127, 128, 255, 256,
                 32767, 65535} :
          (x >= min_value(probe.ty) /\ x <= max_value(probe.ty)
             /\ probe.arg = encode_integer(x))
            => probe.out.val = Some(x)

\* the arguments that the tests of the decoders list were refused
ListedFormsRefused ==
    (IsDecodeProbe
       /\ probe.arg \in { <<>>, <<"u","n","k","n","o","w","n">>,
                          <<"\\xC0","\\xB1">>, <<" ","4","2">>,
                          <<"0","4","2">>, <<"0","0","4","2">> })
       => probe.out.val = None

\* +42 was decoded as a u8
PlusDecoded ==
    /\ IsDecodeProbe
    /\ probe.ty = "u8"
    /\ probe.arg = <<"+","4","2">>
    /\ probe.out.val = Some(42)

\* -042 was decoded as an i8
MinusZeroesDecoded ==
    /\ IsDecodeProbe
    /\ probe.ty = "i8"
    /\ probe.arg = <<"-","0","4","2">>
    /\ probe.out.val = Some(-42)

\* 042 was refused
LeadingZeroRefused ==
    /\ IsDecodeProbe
    /\ probe.arg = <<"0","4","2">>
    /\ probe.out.val = None

\* an encoder of an integer type has been applied to a value of the type
IsEncodeProbe ==
    /\ probe # None
    /\ probe.kind = "encode"
    /\ probe.out # None

\* C31: for every value of an integer type, the least and the greatest
\* included, encode does not panic and writes every byte of a buffer of
\* get_size() bytes, and decode_argument reads the value back from them.
EncodeFillsAndDecodes ==
    IsEncodeProbe =>
       /\ ~probe.out.val.written.panicked
       /\ Len(probe.out.val.written.buf) = probe.out.val.size
       /\ \A i \in 1..Len(probe.out.val.written.buf) :
             probe.out.val.written.buf[i] # Unwritten
       /\ probe.out.val.decoded = Some(probe.val)

\* i8::min_value() was written as -128, in four bytes, and read back
MinI8RoundTrip ==
    /\ IsEncodeProbe
    /\ probe.ty = "i8"
    /\ probe.val = -128
    /\ probe.out.val.size = 4
    /\ probe.out.val.written.buf = <<"-","1","2","8">>
    /\ probe.out.val.decoded = Some(-128)

\* u16::max_value() was written as 65535 and read back
MaxU16RoundTrip ==
    /\ IsEncodeProbe
    /\ probe.ty = "u16"
    /\ probe.val = 65535
    /\ probe.out.val.written.buf = <<"6","5","5","3","5">>
    /\ probe.out.val.decoded = Some(65535)

\* the bytes written are the decimal digits of the value, after a "-" for
\* a negative one, as Display prints them
EncodesLikeDisplay ==
    IsEncodeProbe => probe.out.val.written.buf = encode_integer(probe.val)

\* Identifier::parse has been applied to a string
IsIdentProbe ==
    /\ probe # None
    /\ probe.kind = "ident"
    /\ probe.out # None

\* s is not empty and matches [A-Za-z_][A-Za-z0-9_-]*
MatchesWithDigits(s) ==
    /\ s # <<>>
    /\ s[1] \in UpperCase \cup LowerCase \cup {"_"}
    /\ \A i \in 2..Len(s) :
          s[i] \in UpperCase \cup LowerCase \cup Digits \cup {"_", "-"}

\* s is not empty and matches [A-Za-z_][A-Za-z_-]*
MatchesWithoutDigits(s) ==
    /\ s # <<>>
    /\ s[1] \in UpperCase \cup LowerCase \cup {"_"}
    /\ \A i \in 2..Len(s) : s[i] \in UpperCase \cup LowerCase \cup {"_", "-"}

\* C32, as amended: Identifier::parse accepts a string if and only if it is
\* not empty and matches [A-Za-z_][A-Za-z_-]*, that is, it has no digit; it
\* returns the string itself.
IdentifierHasNoDigits ==
    IsIdentProbe =>
       /\ (probe.out.val # None) <=> MatchesWithoutDigits(probe.input)
       /\ probe.out.val # None => probe.out.val.val = probe.input

\* C32, as stated: Identifier::parse accepts a string if and only if it is
\* not empty and matches [A-Za-z_][A-Za-z0-9_-]*.
IdentifierMayHaveDigits ==
    IsIdentProbe =>
       ((probe.out.val # None) <=> MatchesWithDigits(probe.input))

\* f0o, which matches [A-Za-z_][A-Za-z0-9_-]*, was refused
DigitInsideRefused ==
    /\ IsIdentProbe
    /\ probe.input = <<"f","0","o">>
    /\ MatchesWithDigits(probe.input)
    /\ probe.out.val = None

\* foo1, a module identifier, was refused as an identifier
ModuleIdentifierRefused ==
    /\ IsIdentProbe
    /\ probe.input = <<"f","o","o","1">>
    /\ ModuleIdentifier_parse(probe.input) # None
    /\ probe.out.val = None

\* _foo-foo was accepted
DashedIdentifierAccepted ==
    /\ IsIdentProbe
    /\ probe.input = <<"_","f","o","o","-","f","o","o">>
    /\ probe.out.val = Some(probe.input)

\* get_size_for_number has been applied to a number
IsNumberProbe ==
    /\ probe # None
    /\ probe.kind = "number"
    /\ probe.out # None

\* a number up to 2^32 + 1 in two halves, the upper one up to 2^16
WideLess(a, b) == a.hi < b.hi \/ (a.hi = b.hi /\ a.lo < b.lo)

WidePlus(a, n) ==
    [hi |-> a.hi + (a.lo + n) \div Half, lo |-> (a.lo + n) % Half]

\* 61 * k for a k below 2^27
Times61(k) ==
    [hi |-> (k \div Half) * 61 + ((k % Half) * 61) \div Half,
     lo |-> ((k % Half) * 61) % Half]

\* the least k with m <= 61^k, for 1 < m <= 2^32 + 1
CeilLog61(m) ==
    IF ~WideLess(U32(61), m) THEN 1
    ELSE IF ~WideLess(U32(3721), m) THEN 2
    ELSE IF ~WideLess(U32(226981), m) THEN 3
    ELSE IF ~WideLess(U32(13845841), m) THEN 4
    ELSE IF ~WideLess(U32(844596301), m) THEN 5
    ELSE 6

\* k symbols are what the encoding takes for n: 61 (k - 1) <= n + 1 < 61 k
LinearSize(n, k) ==
    /\ k >= 1
    /\ ~WideLess(WidePlus(n, 1), Times61(k - 1))
    /\ WideLess(WidePlus(n, 1), Times61(k))

\* a suffix has been sized and encoded
IsSuffixProbe ==
    /\ probe # None
    /\ probe.kind = "suffix"
    /\ probe.out # None

\* bytes is k - 1 times the symbol z and then the symbol of
\* n + 1 - 61 (k - 1), which is not z, and not 0 when it stands alone
IsCodeword(bytes, n, k) ==
    /\ Len(bytes) = k
    /\ \A i \in 1..(k - 1) : bytes[i] = "z"
    /\ bytes[k] = LOOKUP_TABLE[n.lo + 1 - 61 * (k - 1) + 1]
    /\ bytes[k] # "z"
    /\ k = 1 => bytes[k] # "0"

\* C33, as amended: a number n below u32::MAX is encoded in 1 + (n + 1) div 61
\* symbols, the symbol z for every 61 in n + 1 and one symbol for the rest;
\* Local(n) puts the symbol 0 in front, Job(n) is the codeword alone and
\* Child(i, j) is the two codewords.  At u32::MAX the sum n + 1 overflows:
\* a build with overflow checks panics, a build without them takes 1 symbol.
SuffixLengthIsLinear ==
    /\ IsNumberProbe =>
          IF probe.num = U32_MAX
          THEN IF probe.overflow_checks THEN ~probe.out.val.ok
               ELSE probe.out.val = Ok(1)
          ELSE probe.out.val.ok /\ LinearSize(probe.num, probe.out.val.val)
    /\ (IsSuffixProbe /\ probe.suffix.i # U32_MAX) =>
          /\ probe.out.val.size.ok
          /\ probe.out.val.bytes.ok
          /\ Len(probe.out.val.bytes.val) = probe.out.val.size.val
          /\ probe.suffix.tag = "Job" =>
                /\ LinearSize(probe.suffix.i, probe.out.val.size.val)
                /\ IsCodeword(probe.out.val.bytes.val, probe.suffix.i,
                              probe.out.val.size.val)
          /\ probe.suffix.tag = "Local" =>
                /\ LinearSize(probe.suffix.i, probe.out.val.size.val - 1)
                /\ probe.out.val.bytes.val[1] = "0"
                /\ IsCodeword(Tail(probe.out.val.bytes.val), probe.suffix.i,
                              probe.out.val.size.val - 1)
          /\ probe.suffix.tag = "Child" =>
                \E k \in 1..(probe.out.val.size.val - 1) :
                   /\ LinearSize(probe.suffix.i, k)
                   /\ LinearSize(probe.suffix.j, probe.out.val.size.val - k)
                   /\ IsCodeword(SubSeq(probe.out.val.bytes.val, 1, k),
                                 probe.suffix.i, k)
                   /\ IsCodeword(SubSeq(probe.out.val.bytes.val, k + 1,
                                        probe.out.val.size.val),
                                 probe.suffix.j, probe.out.val.size.val - k)

\* C33, as stated: for every n of the u32 range the number of symbols that
\* encode n is the least k with n + 2 <= 61^k.
SuffixLengthIsLogarithmic ==
    IsNumberProbe =>
       /\ probe.out.val.ok
       /\ probe.out.val.val = CeilLog61(WidePlus(probe.num, 2))

\* 121 takes three symbols, where 123 <= 61^2
ThreeSymbolsFor121 ==
    /\ IsNumberProbe
    /\ probe.num = U32(121)
    /\ probe.out.val = Ok(3)
    /\ CeilLog61(WidePlus(probe.num, 2)) = 2

\* Local(121) was encoded as 0zz0
Local121Encoded ==
    /\ IsSuffixProbe
    /\ probe.suffix = Local(U32(121))
    /\ probe.out.val.bytes = Ok(<<"0","z","z","0">>)

\* Child(61, 122) was encoded as z1zz1
Child61and122Encoded ==
    /\ IsSuffixProbe
    /\ probe.suffix = Child(U32(61), U32(122))
    /\ probe.out.val.bytes = Ok(<<"z","1","z","z","1">>)

\* a build without overflow checks encoded Job(u32::MAX) as the symbol 0
MaxJobWrapped ==
    /\ IsSuffixProbe
    /\ probe.suffix = Job(U32_MAX)
    /\ ~probe.overflow_checks
    /\ probe.out.val.bytes = Ok(<<"0">>)

\* a build with overflow checks panicked on u32::MAX
MaxNumberPanicked ==
    /\ IsNumberProbe
    /\ probe.num = U32_MAX
    /\ probe.overflow_checks
    /\ ~probe.out.val.ok

\* u32::MAX - 1 takes 70409300 symbols
LargestSize ==
    /\ IsNumberProbe
    /\ probe.num = [hi |-> Half - 1, lo |-> Half - 2]
    /\ probe.out.val = Ok(70409300)

(***************************************************************************)
(* C34: answers to want messages are consistent on a connection.           *)
(***************************************************************************)
IsWantsProbe == probe # None /\ probe.kind = "wants"

\* the major versions that a want message asks for
RequestedMajors(arguments) ==
    {parse_major_version(arguments[i]).val : i \in 2..Len(arguments)}

\* the major versions of a module that the handlers can agree to
SupportedMajors(module_name) ==
    {major \in 1..3 : can_use_module(module_name, major) # None}

Highest(majors) == CHOOSE m \in majors : \A n \in majors : n <= m

NegativeAnswer == Some(FormatMessage(MT_HAVE, <<>>))

PositiveAnswer(module_name, major) ==
    Some(FormatMessage(MT_HAVE,
        <<module_name,
          encode_usize(major) \o <<".">>
          \o encode_usize(can_use_module(module_name, major).val)>>))

\* the wants of the log before position j that were answered positively for
\* the module of the want at position j
EarlierPositive(log, j) ==
    {i \in 1..(j - 1) : /\ log[i].reply \notin {None, NegativeAnswer}
                        /\ log[i].arguments[1] = log[j].arguments[1]}

FirstPositive(log, j) ==
    CHOOSE i \in EarlierPositive(log, j) :
        \A k \in EarlierPositive(log, j) : i <= k

\* the answer that the want at position j must get
ConsistentAnswer(log, j) ==
    LET module_name == log[j].arguments[1]
        requested == RequestedMajors(log[j].arguments)
        usable == requested \cap SupportedMajors(module_name)
        agreed(first) ==
            Highest(RequestedMajors(log[first].arguments)
                    \cap SupportedMajors(module_name))
        again(first) ==
            IF agreed(first) \in requested THEN log[first].reply
            ELSE NegativeAnswer
    IN  IF EarlierPositive(log, j) = {}
        THEN IF usable = {} THEN NegativeAnswer
             ELSE PositiveAnswer(module_name, Highest(usable))
        ELSE again(FirstPositive(log, j))

\* C34: on one connection, the first positive answer for a module names the
\* highest requested major version that is supported; every later want for
\* that module gets exactly that answer again when it asks for the agreed
\* major version, and the negative answer otherwise; enable_module is never
\* called for a module that is enabled (no panic, one entry for a name).
WantsAnsweredConsistently ==
    IsWantsProbe =>
        /\ ~probe.panicked
        /\ \A e, f \in probe.agreed_modules : e.name = f.name => e = f
        /\ \A j \in 1..Len(probe.log) :
               probe.log[j].reply # None =>
                   probe.log[j].reply = ConsistentAnswer(probe.log, j)

WantReply(module_name, versions, reply) ==
    [arguments |-> <<module_name>> \o versions, reply |-> Some(reply)]

\* test_wanthave_replies_consistently: 1.3, then the negative answer for
\* major version 2, then 1.3 again for the versions 1 and 2
AgreedVersionRepeated ==
    /\ IsWantsProbe
    /\ probe.log =
         <<WantReply(MODULE_TEST, <<<<"1">>>>,
                     FormatMessage(MT_HAVE, <<MODULE_TEST, <<"1",".","3">>>>)),
           WantReply(MODULE_TEST, <<<<"2">>>>, FormatMessage(MT_HAVE, <<>>)),
           WantReply(MODULE_TEST, <<<<"1">>, <<"2">>>>,
                     FormatMessage(MT_HAVE, <<MODULE_TEST, <<"1",".","3">>>>))>>

\* the highest of the versions 1 and 2 is agreed, and a want for version 1
\* is refused afterwards
HighestMajorAgreed ==
    /\ IsWantsProbe
    /\ Len(probe.log) = 2
    /\ probe.log[1] =
         WantReply(MODULE_TEST, <<<<"1">>, <<"2">>>>,
                   FormatMessage(MT_HAVE, <<MODULE_TEST, <<"2",".","1">>>>))
    /\ probe.log[2] =
         WantReply(MODULE_TEST, <<<<"1">>>>, FormatMessage(MT_HAVE, <<>>))

\* two modules are agreed on the connection
TwoModulesEnabled ==
    /\ IsWantsProbe
    /\ Cardinality(probe.agreed_modules) = 2

\* a want without a usable major version gets no answer
InvalidWantSilent ==
    /\ IsWantsProbe
    /\ \E j \in 1..Len(probe.log) :
           /\ probe.log[j].arguments = <<MODULE_TEST, <<"0">> >>
           /\ probe.log[j].reply = None

(***************************************************************************)
(* C35: the filled send buffers of a queue are its first buffers, in the   *)
(* order of the enqueue calls.                                             *)
(***************************************************************************)
IsSuffix(p, s) ==
    Len(p) <= Len(s) /\ SubSeq(s, Len(s) - Len(p) + 1, Len(s)) = p

\* no buffer with data stands behind a buffer without data
FilledFirst(bufs) ==
    \A i, j \in 1..Len(bufs) :
       (i < j /\ Len(bufs[j]) > 0) => Len(bufs[i]) > 0

\* C35: in every send buffer queue the buffers that hold data are the first
\* buffers of the queue and all empty buffers stand behind them; the bytes
\* of the queue, read in the order of the queue, are the bytes enqueued last
\* in the order of their enqueue calls; and the buffer that the transmitter
\* has got from swap_send_buffer, the one at index 0, holds the oldest bytes
\* not yet written: the bytes written, that buffer and the queue make up the
\* enqueued bytes in their order.
SendQueueFilledFirst ==
    \A c \in DOMAIN tx :
       /\ FilledFirst(tx[c].bufs)
       /\ IsSuffix(Concat(tx[c].bufs), Flatten(enq_log[c]))
       /\ (pc[Transmitter(c)] = "write" /\ txl[c] # None) =>
             written[c] \o txl[c].val \o Concat(tx[c].bufs)
                = Flatten(enq_log[c])

\* a queue holds a buffer with data and, behind it, the empty buffer that
\* the transmitter has given back
FilledThenReturned ==
    \E c \in DOMAIN tx :
       /\ Len(tx[c].bufs) = 2
       /\ Len(tx[c].bufs[1]) > 0
       /\ Len(tx[c].bufs[2]) = 0
       /\ Len(written[c]) > 0

\* the transmitter has taken the buffer at index 0 while a second buffer
\* with younger bytes waits in the queue
OldestBufferTaken ==
    \E c \in DOMAIN tx :
       /\ Len(InFlight(c)) > 0
       /\ Len(tx[c].bufs) >= 1
       /\ Len(tx[c].bufs[1]) > 0
       /\ written[c] \o InFlight(c) \o tx[c].bufs[1]
             = SubSeq(Flatten(enq_log[c]), 1,
                      Len(written[c]) + Len(InFlight(c)) + Len(tx[c].bufs[1]))

(***************************************************************************)
(* C36: the connection pool and the tx-connector map hold the same         *)
(* connections.                                                            *)
(***************************************************************************)
\* C36: whenever no thread holds the pool lock, the connection IDs of the
\* pool are the connection IDs of the tx-connector map.
PoolAndTxAgree == pool_lock = NoThread => DOMAIN conns = DOMAIN tx

\* an enqueue_message or enqueue_stdin call, under the tx lock, finds no
\* TxConnector for its connection and returns without enqueueing
ConnectorMissing ==
    \E t \in Threads :
       /\ pc[t] = "enq"
       /\ tx_lock = t
       /\ hold.target \in DOMAIN conns
       /\ hold.target \notin DOMAIN tx

\* the consequence that C36 draws: no enqueue call takes the branch for a
\* missing TxConnector
ConnectorNeverMissing == ~ConnectorMissing

\* the new connection is in the pool, its TxConnector is not yet in the map,
\* and no thread holds the pool lock
InPoolWithoutConnector ==
    /\ pool_lock = NoThread
    /\ pc[AcceptLoop] \in {"acc_tx_lock", "acc_tx"}
    /\ (next_connection_id - 1) \in DOMAIN conns
    /\ (next_connection_id - 1) \notin DOMAIN tx

(***************************************************************************)
(* C37: no wake-up of a transmitter is lost.                               *)
(***************************************************************************)
\* bytes enqueued on connection c have not been written to its socket
Unwritten37(c) == written[c] # Flatten(enq_log[c])

\* connection c is torn down: it is in state Teardown or has left the pool
TornDown(c) ==
    \/ c \notin DOMAIN conns
    \/ conns[c].state = Teardown

\* C37: bytes enqueued on a connection are eventually written to its socket,
\* unless the connection is torn down, in whatever position of its loop
\* the transmitter is when enqueue_message calls notify_one.
NoWakeupLost ==
    \A c \in ConnIds :
       Unwritten37(c) ~> (written[c] = Flatten(enq_log[c]) \/ TornDown(c))

\* the second reply was enqueued while the transmitter was writing the
\* first: a permit is stored and the reply waits in the queue
EnqueuedWhileWriting ==
    \E c \in DOMAIN tx :
       /\ pc[Transmitter(c)] = "write"
       /\ notify[c]
       /\ Len(enq_log[c]) = 2
       /\ Unwritten37(c)
       /\ ~TornDown(c)

\* the reply was enqueued while the transmitter waited for the pool lock
\* on its way to swap_send_buffer
EnqueuedWhileAcquiring ==
    \E c \in DOMAIN tx :
       /\ pc[Transmitter(c)] = "tx_acq"
       /\ pool_lock = Receiver(c)
       /\ notify[c]
       /\ Len(enq_log[c]) = 2
       /\ ~TornDown(c)

\* both replies have been written and the transmitter sleeps
BothRepliesWritten ==
    \E c \in DOMAIN tx :
       /\ pc[Transmitter(c)] = "notified"
       /\ ~notify[c]
       /\ Len(enq_log[c]) = 2
       /\ written[c] = Flatten(enq_log[c])
       /\ ~TornDown(c)

(***************************************************************************)
(* C38: every call of handle_incoming comes to an end.                     *)
(***************************************************************************)
IsRoundProbe == probe # None /\ probe.kind = "round" /\ probe.out # None

\* C38: a round of handle_incoming, on whatever buffer and in whatever
\* state, either returns or goes on with a receive buffer that is shorter
\* by at least one byte: the bytes left are the end of the buffer that the
\* round started with, and a round that tail-calls handle_incoming has
\* removed a message or, after a definitive parse error, at least one byte.
EveryRoundShortens ==
    IsRoundProbe =>
       /\ IsSuffix(probe.out.val.buf, probe.buf)
       /\ probe.out.val.again => Len(probe.out.val.buf) < Len(probe.buf)

\* a buffer that starts with two openers: the parse error of the first round
\* discards one byte, and the rounds go on with the message behind it
OneByteDiscarded ==
    /\ IsRoundProbe
    /\ probe.rounds = 1
    /\ probe.buf = <<"{","{","1","|","4",":","n","o","p","e",",","}">>
    /\ probe.out.val.again
    /\ probe.out.val.buf = Tail(probe.buf)

\* three rounds on one buffer: garbage, garbage, and a message that has not
\* been received to its end
ThirdRoundReturns ==
    /\ IsRoundProbe
    /\ probe.rounds = 3
    /\ ~probe.out.val.again
    /\ probe.out.val.buf # <<>>

\* a connection in state Teardown leaves the buffer as it is and returns
TeardownReturnsAtOnce ==
    /\ IsRoundProbe
    /\ probe.state = Teardown
    /\ probe.rounds = 1
    /\ probe.buf # <<>>
    /\ ~probe.out.val.again
    /\ probe.out.val.buf = probe.buf

(***************************************************************************)
(* C39: ConnectionOpened comes before ConnectionClosed.                    *)
(***************************************************************************)
\* C39: at every point the Application has got at most as many
\* ConnectionClosed notifications as ConnectionOpened notifications.
ClosedAfterOpened == notes.closed <= notes.opened

\* the connection has been removed and ConnectionClosed delivered while the
\* accept loop has not yet delivered its ConnectionOpened
ClosedBeforeOpened ==
    /\ pc[AcceptLoop] = "acc_notify"
    /\ notes.opened = 0
    /\ notes.closed = 1
    /\ conns = <<>>
    /\ next_connection_id = 1

(***************************************************************************)
(* C40: a panic and the other tasks.                                       *)
(***************************************************************************)
\* the threads that have panicked
Panicked == {t \in Threads : pc[t] = "panicked"}

\* C40: a panic raised in a task by an enqueue operation terminates only
\* that task: it leaves neither the pool lock nor the tx lock unusable, and
\* no other task panics.
PanicTerminatesOnlyItsTask ==
    /\ ~Poisoned(pool_lock)
    /\ ~Poisoned(tx_lock)
    /\ Cardinality(Panicked) <= 1

\* the task has panicked in enqueue_message on the Stdout connection 0, and
\* the receiver of connection 1, which is in its handshake, has panicked on
\* the pool lock
OtherReceiverPanicked ==
    /\ pc[DemoTask] = "panicked"
    /\ hold.target = 0
    /\ 0 \in DOMAIN conns /\ conns[0].state.tag = "Stdout"
    /\ 1 \in DOMAIN conns /\ conns[1].state = Handshake
    /\ pc[Receiver(1)] = "panicked"

\* the message that is too long has poisoned the tx lock as well, and the
\* accept loop has panicked on it with the second connection half made
AcceptLoopPanickedOnTx ==
    /\ Poisoned(tx_lock)
    /\ pc[AcceptLoop] = "panicked"
    /\ DOMAIN conns = {0, 1}
    /\ DOMAIN tx = {0}

====
